---- MODULE Spec2Model ----
(***************************************************************************)
(* A state-machine model of simsoptpp/permanent_magnet_optimization.cpp:   *)
(* the greedy permanent-magnet optimizers (GPMO_baseline, GPMO_MC,         *)
(* GPMO_multi, GPMO_backtracking), their history reporting, the neighbour  *)
(* table built by connectivity_matrix, and the MwPGP solver.               *)
(*                                                                         *)
(* One action is one pass through the body of a solver's main loop,        *)
(* including the report at its end.  The GPMO solvers work on integer      *)
(* matrices here, so every sum the code forms is exact.                    *)
(***************************************************************************)
EXTENDS Integers, Sequences, FiniteSets, TLC

(***************************************************************************)
(* Bounds of the model.                                                    *)
(***************************************************************************)
\* number of dipoles N = A_obj.shape(0) / 3
NDip == 2
\* number of grid points ngrid = A_obj.shape(1)
NGrid == 1
\* largest number of iterations K asked of a GPMO solver
MaxK == 3
\* largest Nadjacent
MaxAdj == 2
\* largest backtracking period
MaxBack == 2
\* dipole centres lie at x = 0..MaxPos on a line (y = z = 0)
MaxPos == 1
\* largest nhistory of a quiet call
MaxHist == 1
\* largest K and nhistory of a call that reports (verbose)
MaxReportK == 5
MaxReportHist == 3

\* entries of the caller's matrix A and of the target b
AVals == {0, 1}
BVals == {-2, -1, 1}

(***************************************************************************)
(* Program constants.                                                      *)
(***************************************************************************)
\* the disabled-slot sentinel 1e50 written into R2s.  The model's integers
\* stop at 2^31 - 1, so the sentinel is the largest of them: like 1e50 it
\* exceeds every R2 value the bounded inputs can produce.
R2Disabled == 2147483647
\* the eliminated-distance sentinel 1e10 of connectivity_matrix, saturated
\* in the same way.
DistEliminated == 2147483646
\* number of columns of the table connectivity_matrix returns
ConnectWidth == 2000

VARIABLES
    alg,              \* which entry point was called
    A_obj,            \* caller's matrix, A_obj[j][i], j < 3N, i < ngrid
    b_obj,            \* caller's target vector
    ATb,              \* caller's A^T b (GPMO_MC); uk points into it
    dipole_grid_xyz,  \* caller's dipole centres (multi, backtracking)
    par,              \* scalar arguments: K, verbose, nhistory, ...
    pc,               \* "run" in the main loop, "done" returned, "crashed"
    k,                \* main-loop counter
    x,                \* x[i][d], the N x 3 solution
    Gamma_complement, \* availability mask, flat: slot 3*i + d
    Aij_mj_sum,       \* running residual A x - b
    R2s,              \* the 6N candidate values (baseline, multi, backtracking)
    print_iter,       \* next history slot
    hist,             \* log of history writes: <<slot, iteration, R2 written>>
    skj,              \* backtracking: dipole placed in each past iteration
    sk_sign_fac,      \* backtracking: per-dipole sign placeholder
    skjj_ind,         \* backtracking: per-dipole axis placeholder
    Connect,          \* the table connectivity_matrix returned, columns 0..N
    heapjunk,         \* backtracking: cells past the placeholders' end whose
                      \* contents nothing has determined yet
    ub,               \* an access outside an allocation has happened
    m_proxy,          \* MwPGP: caller's relax-and-split proxy
    m0,               \* MwPGP: caller's initial guess
    m_maxima,         \* MwPGP: caller's ball radii
    g,                \* MwPGP: gradient at x
    p,                \* MwPGP: search direction
    region,           \* parallel region: which one, "none" in a solver call
    sched,            \* parallel region: thread of each loop index
    rin,              \* parallel region: the arrays it only reads
    tpc,              \* parallel region: steps each loop index has taken
    treg,             \* parallel region: value each loop index has loaded
    mem,              \* parallel region: the shared locations it writes
    priv,             \* parallel region: the threads' reduction copies
    writers,          \* parallel region: loop indices that wrote a location
    joined,           \* parallel region: the team has joined
    xk,               \* line search: the iterate the search starts from
    dk,               \* line search: the search direction
    fk,               \* line search: reference value, fk (PQN) or fb (SPG)
    gkTdk,            \* line search: slope, gkTdk (PQN) or dq_PQNTdk (SPG)
    fk1,              \* line search: trial value, fk1 (PQN) or qk (SPG)
    alpha_ls,         \* line search: the step length alpha
    npass,            \* line search: executions of the loop body so far
    lpc,              \* line search: "test", "body", "accepted"; "idle";
                      \* "returned" once SPG has left its main loop
    alpha_bb,         \* SPG: the step length it computes and returns
    alphak_bar        \* SPG: the step length of the projected direction

vars == <<alg, A_obj, b_obj, ATb, dipole_grid_xyz, par, pc, k, x,
          Gamma_complement, Aij_mj_sum, R2s, print_iter, hist, skj,
          sk_sign_fac, skjj_ind, Connect, heapjunk, ub, m_proxy, m0, m_maxima,
          g, p, region, sched, rin, tpc, treg, mem, priv, writers, joined,
          xk, dk, fk, gkTdk, fk1, alpha_ls, npass, lpc, alpha_bb, alphak_bar>>

regionVars == <<region, sched, rin, tpc, treg, mem, priv, writers, joined>>

searchVars == <<xk, dk, fk, gkTdk, fk1, alpha_ls, npass, lpc, alpha_bb,
                alphak_bar>>

\* what a solver call leaves alone
elsewhere == <<regionVars, searchVars>>

\* no line search is under way
SearchIdle ==
    /\ xk = << >> /\ dk = << >> /\ fk = << >> /\ gkTdk = << >> /\ fk1 = << >>
    /\ alpha_ls = << >> /\ npass = 0 /\ lpc = "idle"
    /\ alpha_bb = << >> /\ alphak_bar = << >>

\* no parallel region is under way
RegionIdle ==
    /\ region = "none" /\ sched = << >> /\ rin = << >> /\ tpc = << >>
    /\ treg = << >> /\ mem = << >> /\ priv = << >> /\ writers = << >>
    /\ joined = FALSE

\* the state of elsewhere during a solver call
ElsewhereIdle == RegionIdle /\ SearchIdle

inputs == <<alg, A_obj, b_obj, dipole_grid_xyz, par, m_proxy, m0, m_maxima>>

(***************************************************************************)
(* Shapes, as the entry points read them.                                  *)
(***************************************************************************)
\* int N = int(A_obj.shape(0) / 3)
N == Cardinality(DOMAIN A_obj) \div 3
N3 == 3 * N
\* int ngrid = A_obj.shape(1)
ngrid == Cardinality(DOMAIN A_obj[0])

Max(a, b) == IF a > b THEN a ELSE b
Min(a, b) == IF a < b THEN a ELSE b

\* sum of f[0] .. f[n-1]
RECURSIVE SumTo(_, _)
SumTo(f, n) == IF n = 0 THEN 0 ELSE f[n - 1] + SumTo(f, n - 1)

\* index of the last smallest entry of v[0..n-1]
RECURSIVE LastMinFrom(_, _, _, _)
LastMinFrom(v, n, i, best) ==
    IF i = n THEN best
    ELSE LastMinFrom(v, n, i + 1, IF v[i] <= v[best] THEN i ELSE best)
min_element_last(v, n) == LastMinFrom(v, n, 1, 0)

\* std::min_element: index of the first smallest entry of v[0..n-1]
RECURSIVE MinElementFrom(_, _, _, _)
MinElementFrom(v, n, i, best) ==
    IF i = n THEN best
    ELSE MinElementFrom(v, n, i + 1, IF v[i] < v[best] THEN i ELSE best)
min_element(v, n) == MinElementFrom(v, n, 1, 0)

\* std::max_element: index of the first largest entry of v[0..n-1]
RECURSIVE MaxElementFrom(_, _, _, _)
MaxElementFrom(v, n, i, best) ==
    IF i = n THEN best
    ELSE MaxElementFrom(v, n, i + 1, IF v[best] < v[i] THEN i ELSE best)
max_element(v, n) == MaxElementFrom(v, n, 1, 0)

Abs(a) == IF a < 0 THEN -a ELSE a

\* the array f[0..n-1] with every entry worked out once
RECURSIVE Evaluated(_, _)
Evaluated(f, n) ==
    IF n = 0 THEN << >> ELSE Evaluated(f, n - 1) @@ ((n - 1) :> f[n - 1])

(***************************************************************************)
(* Pieces shared by the GPMO variants.                                     *)
(***************************************************************************)
\* R2 of placing column j with sign s: sum_i (Aij_mj_ptr[i] + s*Aij_ptr[i + nj])^2
R2Col(r, j, s) ==
    SumTo([i \in 0..(ngrid - 1) |-> (r[i] + s * A_obj[j][i]) * (r[i] + s * A_obj[j][i])],
          ngrid)

\* Aij_mj_ptr[i] += s * Aij_ptr[i + ngrid * c]
AddColumn(r, c, s) ==
    [i \in DOMAIN r |-> IF i < ngrid THEN r[i] + s * A_obj[c][i] ELSE r[i]]

\* the columns the candidate scan visits:
\* for (j = max(0, single_direction); j < N3; j += j_update)
Scanned(j) ==
    LET j_update == IF par.single_direction >= 0 THEN 3 ELSE 1
        j0 == Max(0, par.single_direction)
    IN  j >= j0 /\ j < N3 /\ (j - j0) % j_update = 0

\* the R2s vector after the scan: both banks of every scanned, available slot
ScanR2s(R, G, r) ==
    [j \in 0..(6 * N - 1) |->
        IF j < N3
        THEN IF Scanned(j) /\ G[j] THEN R2Col(r, j, 1) ELSE R[j]
        ELSE IF Scanned(j - N3) /\ G[j - N3] THEN R2Col(r, j - N3, -1) ELSE R[j]]

\* Gamma_complement(i, 0..2) = false
DisableDipole(G, i) == [c \in DOMAIN G |-> IF c \div 3 = i THEN FALSE ELSE G[c]]

\* R2s[3*i + j] = 1e50; R2s[N3 + 3*i + j] = 1e50
DisableR2s(R, i) ==
    [c \in DOMAIN R |-> IF (c % N3) \div 3 = i THEN R2Disabled ELSE R[c]]

\* what the argmin decodes to: dipole, axis and sign
Decode(sel) ==
    LET col == IF sel >= N3 THEN sel - N3 ELSE sel
    IN  [skj |-> col \div 3, skjj |-> col % 3,
         sign_fac |-> IF sel >= N3 THEN -1 ELSE 1]

(***************************************************************************)
(* Reporting.                                                              *)
(***************************************************************************)
\* R2 += Aij_mj_ptr[i] * Aij_mj_ptr[i] over the grid.  The code writes
\* 0.5 * R2 into objective_history; the log keeps R2 itself, twice that value,
\* so that it stays an integer.
SqNorm(r) == SumTo([i \in 0..(ngrid - 1) |-> r[i] * r[i]], ngrid)

\* the sampling modulus of print_GPMO: int(K / nhistory)
GPMOModulus == par.K \div par.nhistory

\* the sampling modulus GPMO_MC uses inline: int(K / (nhistory - 1));
\* 0 stands for the division by zero when nhistory = 1
MCModulus ==
    IF par.nhistory - 1 = 0 THEN 0 ELSE par.K \div (par.nhistory - 1)

\* A report with sampling modulus m at iteration kk; u is the ub flag the
\* iteration has reached.  k % 0 (and K / 0) is undefined: the build either
\* traps or goes on with either truth value.  A write past slot nhistory
\* leaves the history buffers: the build either faults or goes on with the
\* stray write.
Report(m, kk, u) ==
    IF ~par.verbose
    THEN /\ UNCHANGED <<print_iter, hist>>
         /\ ub' = u
         /\ pc' = "run"
    ELSE \/ /\ m = 0
            /\ ub' = TRUE
            /\ \/ pc' = "crashed" /\ UNCHANGED <<print_iter, hist>>
               \/ pc' = "run" /\ UNCHANGED <<print_iter, hist>>
               \/ /\ pc' = "run"
                  /\ print_iter' = print_iter + 1
                  /\ hist' = Append(hist, <<print_iter, kk, SqNorm(Aij_mj_sum')>>)
         \/ /\ m # 0
            /\ IF (kk % m = 0) \/ kk = 0 \/ kk = par.K - 1
               THEN /\ print_iter' = print_iter + 1
                    /\ hist' = Append(hist, <<print_iter, kk, SqNorm(Aij_mj_sum')>>)
                    /\ IF print_iter > par.nhistory
                       THEN ub' = TRUE /\ pc' \in {"run", "crashed"}
                       ELSE ub' = u /\ pc' = "run"
               ELSE /\ UNCHANGED <<print_iter, hist>>
                    /\ ub' = u
                    /\ pc' = "run"

(***************************************************************************)
(* GPMO_baseline: one iteration of the main loop.                          *)
(***************************************************************************)
BaselineIter ==
    /\ pc = "run" /\ alg = "baseline" /\ k < par.K
    /\ \E scanned \in {Evaluated(ScanR2s(R2s, Gamma_complement, Aij_mj_sum), 6 * N)} :
       \E sel \in {Decode(min_element(scanned, 6 * N))} :
           /\ x' = [x EXCEPT ![sel.skj][sel.skjj] = sel.sign_fac]
           /\ Aij_mj_sum' = AddColumn(Aij_mj_sum, 3 * sel.skj + sel.skjj, sel.sign_fac)
           /\ Gamma_complement' = DisableDipole(Gamma_complement, sel.skj)
           /\ R2s' = DisableR2s(scanned, sel.skj)
    /\ Report(GPMOModulus, k, ub)
    /\ k' = k + 1
    /\ UNCHANGED <<inputs, elsewhere, g, p, ATb, skj, sk_sign_fac, skjj_ind, Connect, heapjunk>>

(***************************************************************************)
(* GPMO_MC: one iteration of the main loop.                                *)
(***************************************************************************)
\* abs_uk: |uk[j]| on the available slots, 0 (the vector's initial value)
\* on the others
AbsUk(G, uk) == [j \in 0..(N3 - 1) |-> IF G[j] THEN Abs(uk[j]) ELSE 0]

\* uk[j] -= sum_i A[i + nj] * A[i + skj_ind] on the slots still available
UpdateUk(G, uk, c) ==
    [j \in 0..(N3 - 1) |->
        uk[j] - (IF G[j]
                 THEN SumTo([i \in 0..(ngrid - 1) |-> A_obj[j][i] * A_obj[c][i]], ngrid)
                 ELSE 0)]

\* a sign choice that prefers the larger of the two candidate values
MCSignLarger(r, c) == IF R2Col(r, c, -1) > R2Col(r, c, 1) THEN -1 ELSE 1

\* if (R2minus < R2) sign_fac[k] = -1.0; else sign_fac[k] = 1.0;
MCSign(r, c) == IF R2Col(r, c, -1) < R2Col(r, c, 1) THEN -1 ELSE 1

MCIter ==
    /\ pc = "run" /\ alg = "MC" /\ k < par.K
    /\ \E c \in {max_element(Evaluated(AbsUk(Gamma_complement, ATb), N3), N3)} :
       LET sign_fac == MCSign(Aij_mj_sum, c)
           G1 == DisableDipole(Gamma_complement, c \div 3)
       IN  /\ x' = [x EXCEPT ![c \div 3][c % 3] = sign_fac]
           /\ Aij_mj_sum' = AddColumn(Aij_mj_sum, c, sign_fac)
           /\ Gamma_complement' = G1
           /\ ATb' = UpdateUk(G1, ATb, c)
    /\ Report(MCModulus, k, ub)
    /\ k' = k + 1
    /\ UNCHANGED <<inputs, elsewhere, g, p, R2s, skj, sk_sign_fac, skjj_ind, Connect, heapjunk>>

(***************************************************************************)
(* connectivity_matrix: the neighbour table.                               *)
(***************************************************************************)
\* int Ndipole = dipole_grid_xyz.shape(0)
Ndipole == Cardinality(DOMAIN dipole_grid_xyz)

\* sqrt of a perfect square (the centres of the model lie on a line, so
\* every squared distance is one)
Sqrt(n) == CHOOSE r \in 0..n : r * r = n

\* dist_ij[i] of row j
Dist(j) ==
    [i \in 0..(Ndipole - 1) |->
        Sqrt((dipole_grid_xyz[i][0] - dipole_grid_xyz[j][0])
               * (dipole_grid_xyz[i][0] - dipole_grid_xyz[j][0])
             + (dipole_grid_xyz[i][1] - dipole_grid_xyz[j][1])
               * (dipole_grid_xyz[i][1] - dipole_grid_xyz[j][1])
             + (dipole_grid_xyz[i][2] - dipole_grid_xyz[j][2])
               * (dipole_grid_xyz[i][2] - dipole_grid_xyz[j][2]))]

\* the index written in pass kk of the loop over the 2000 columns: the first
\* minimum of dist_ij, after the minima of the earlier passes were overwritten
RECURSIVE PickAt(_, _)
PickAt(dist, kk) ==
    LET m == min_element(dist, Ndipole)
    IN  IF kk = 0 THEN m ELSE PickAt([dist EXCEPT ![m] = DistEliminated], kk - 1)

\* the table with every row started at its second entry
ConnectSkipFirst(j, col) == PickAt(Dist(j), Min(col + 1, Ndipole))

\* connectivity_inds(j, col), col < 2000.  After Ndipole passes every entry of
\* dist_ij is the sentinel and stays so: every later pass repeats pass Ndipole.
connectivity_matrix(j, col) == PickAt(Dist(j), Min(col, Ndipole))

\* Array Connect = connectivity_matrix(dipole_grid_xyz, Nadjacent).  The state
\* keeps columns 0..Ndipole of each row; columns Ndipole..1999 are equal.
ConnectTable ==
    [j \in 0..(Ndipole - 1) |-> [col \in 0..Ndipole |-> connectivity_matrix(j, col)]]

\* Connect(row, col) as the unchecked array access computes it: the entry at
\* flat offset row * 2000 + col of the row-major table
ConnectFlat(f) == Connect[f \div ConnectWidth][Min(f % ConnectWidth, Ndipole)]
ConnectSize == Ndipole * ConnectWidth

(***************************************************************************)
(* GPMO_multi: one iteration of the main loop.                             *)
(***************************************************************************)
\* while (not Gamma_ptr[cj_ind]) { cj = Connect(row, Nadjacent + cj_counter);
\*                                 cj_ind = 3 * cj + d; cj_counter += 1; }
\* entered with the slot of Connect(row, jj) unavailable.  The read walks on
\* through the table; past its last entry it leaves the allocation (oob).
\* Columns Ndipole.. of a row all hold the same index, so when that dipole is
\* unavailable the walk is taken to the start of the next row in one step.
RECURSIVE NextAvailable(_, _, _, _)
NextAvailable(row, d, G, c) ==
    LET f == row * ConnectWidth + par.Nadjacent + c
    IN  IF f >= ConnectSize
        THEN [oob |-> TRUE, cj |-> 0, counter |-> c]
        ELSE IF G[3 * ConnectFlat(f) + d]
             THEN [oob |-> FALSE, cj |-> ConnectFlat(f), counter |-> c + 1]
             ELSE IF f % ConnectWidth >= Ndipole
                  THEN NextAvailable(row, d, G, c + (ConnectWidth - (f % ConnectWidth)))
                  ELSE NextAvailable(row, d, G, c + 1)

\* the neighbour that pass jj of a loop over jj < Nadjacent works on
Neighbour(row, d, G, jj, c) ==
    LET cj == ConnectFlat(row * ConnectWidth + jj)
    IN  IF G[3 * cj + d]
        THEN [oob |-> FALSE, cj |-> cj, counter |-> c]
        ELSE NextAvailable(row, d, G, c)

\* candidate evaluation of slot j: R2 and R2minus summed over dipole j / 3
\* and the neighbours the search lands on
RECURSIVE EvalFrom(_, _, _, _, _)
EvalFrom(j, G, r, jj, acc) ==
    IF jj = par.Nadjacent \/ acc.oob THEN acc
    ELSE LET nb == Neighbour(j \div 3, j % 3, G, jj, acc.counter)
         IN  IF nb.oob
             THEN [acc EXCEPT !.oob = TRUE]
             ELSE EvalFrom(j, G, r, jj + 1,
                           [oob |-> FALSE, counter |-> nb.counter,
                            R2 |-> acc.R2 + R2Col(r, 3 * nb.cj + (j % 3), 1),
                            R2minus |-> acc.R2minus + R2Col(r, 3 * nb.cj + (j % 3), -1)])
EvalCandidate(j, G, r) ==
    EvalFrom(j, G, r, 0, [oob |-> FALSE, counter |-> 0, R2 |-> 0, R2minus |-> 0])

\* the R2s vector after the scan of GPMO_multi
MultiScanR2s(R, G, r) ==
    [j \in 0..(6 * N - 1) |->
        IF j < N3
        THEN IF Scanned(j) /\ G[j] THEN EvalCandidate(j, G, r).R2 ELSE R[j]
        ELSE IF Scanned(j - N3) /\ G[j - N3]
             THEN EvalCandidate(j - N3, G, r).R2minus ELSE R[j]]

\* some candidate's evaluation read past the end of Connect
ScanLeavesTable(G, r) ==
    \E j \in 0..(N3 - 1) : Scanned(j) /\ G[j] /\ EvalCandidate(j, G, r).oob

\* the commit loop over jj < Nadjacent, from pass jj on
RECURSIVE CommitFrom(_, _, _)
CommitFrom(sel, jj, s) ==
    IF jj = par.Nadjacent \/ s.oob THEN s
    ELSE LET nb == Neighbour(sel.skj, sel.skjj, s.G, jj, s.counter)
         IN  IF nb.oob
             THEN [s EXCEPT !.oob = TRUE]
             ELSE CommitFrom(sel, jj + 1,
                    [oob |-> FALSE, counter |-> nb.counter,
                     x |-> [s.x EXCEPT ![nb.cj][sel.skjj] = sel.sign_fac],
                     r |-> AddColumn(s.r, 3 * nb.cj + sel.skjj, sel.sign_fac),
                     G |-> DisableDipole(s.G, nb.cj),
                     R |-> DisableR2s(s.R, nb.cj)])

\* what a read of memory outside an array can leave in the running residual
Garbage == {-1, 0, 1}

MultiIter ==
    /\ pc = "run" /\ alg = "multi" /\ k < par.K
    /\ IF ScanLeavesTable(Gamma_complement, Aij_mj_sum)
       THEN \* a candidate's neighbour search left the table: undefined
            /\ ub' = TRUE
            /\ UNCHANGED <<x, Gamma_complement, R2s, print_iter, hist>>
            /\ \/ pc' = "crashed" /\ UNCHANGED Aij_mj_sum
               \/ pc' = "run" /\ Aij_mj_sum' \in [DOMAIN Aij_mj_sum -> Garbage]
       ELSE \E scanned \in {Evaluated(MultiScanR2s(R2s, Gamma_complement, Aij_mj_sum),
                                       6 * N)} :
            \E sel \in {Decode(min_element(scanned, 6 * N))} :
            \E s \in {CommitFrom(sel, 0,
                                [oob |-> FALSE, counter |-> 0, x |-> x,
                                 r |-> Aij_mj_sum, G |-> Gamma_complement,
                                 R |-> scanned])} :
                /\ x' = s.x
                /\ Gamma_complement' = s.G
                /\ R2s' = s.R
                /\ IF s.oob
                   THEN \* the commit's neighbour search left the table
                        /\ ub' = TRUE
                        /\ UNCHANGED <<print_iter, hist>>
                        /\ \/ pc' = "crashed" /\ Aij_mj_sum' = s.r
                           \/ pc' = "run" /\ Aij_mj_sum' \in [DOMAIN Aij_mj_sum -> Garbage]
                   ELSE /\ Aij_mj_sum' = s.r
                        /\ Report(GPMOModulus, k, ub)
    /\ k' = k + 1
    /\ UNCHANGED <<inputs, elsewhere, g, p, ATb, skj, sk_sign_fac, skjj_ind, Connect, heapjunk>>

(***************************************************************************)
(* GPMO_backtracking: one iteration of the main loop.                      *)
(***************************************************************************)
\* The placeholders sk_sign_fac and skjj_ind are vectors of length K that the
\* code indexes by dipole.  Cells K.. lie past the end of the vector; the
\* model keeps them as the memory that follows it, with arbitrary contents
\* until written, and raises ub when one is touched.
PastVector(i) == i >= par.K

\* pass jj.. of the loop over the neighbours of jk: the first jj < Nadjacent
\* whose dipole cj is an equal and opposite partner of jk, or Nadjacent
RECURSIVE WyrmAt(_, _, _, _)
WyrmAt(jk, ssf, ind, jj) ==
    IF jj >= par.Nadjacent THEN par.Nadjacent
    ELSE LET cj == ConnectFlat(jk * ConnectWidth + jj)
         IN  IF (ssf[jk] # 0) /\ (ssf[jk] = -ssf[cj]) /\ (ind[jk] = ind[cj])
             THEN jj
             ELSE WyrmAt(jk, ssf, ind, jj + 1)

\* the cells a neighbour loop that stops at pass `stop` has read
RECURSIVE LoopLeavesVector(_, _, _, _)
LoopLeavesVector(jk, ssf, jj, stop) ==
    IF jj >= par.Nadjacent \/ jj > stop THEN FALSE
    ELSE \/ PastVector(jk)
         \/ (ssf[jk] # 0 /\ PastVector(ConnectFlat(jk * ConnectWidth + jj)))
         \/ LoopLeavesVector(jk, ssf, jj + 1, stop)

\* the removal of the pair (jk, cj)
KillPair(s, ind, jk, cj) ==
        [x |-> [i \in DOMAIN s.x |->
                  [d \in 0..2 |->
                     IF (i = jk /\ d = ind[jk]) \/ (i = cj /\ d = ind[cj])
                     THEN 0 ELSE s.x[i][d]]],
         G |-> [c \in DOMAIN s.G |->
                  IF c \div 3 = jk \/ c \div 3 = cj THEN TRUE ELSE s.G[c]],
         r |-> [i \in DOMAIN s.r |->
                  IF i < ngrid
                  THEN s.r[i] - (s.ssf[jk] * A_obj[3 * jk + ind[jk]][i]
                                 + s.ssf[cj] * A_obj[3 * cj + ind[cj]][i])
                  ELSE s.r[i]],
         ssf |-> [i \in DOMAIN s.ssf |-> IF i = jk \/ i = cj THEN 0 ELSE s.ssf[i]],
         oob |-> s.oob]

\* the backtracking pass: for (j = 0; j < k; j++) over the dipoles placed in
\* the earlier iterations, past being skj[0..k-1]
RECURSIVE PassFrom(_, _, _, _)
PassFrom(past, ind, j, s) ==
    IF j > Len(past) THEN s
    ELSE LET jk == past[j]
             jj == WyrmAt(jk, s.ssf, ind, 0)
             s1 == [s EXCEPT !.oob = s.oob \/ LoopLeavesVector(jk, s.ssf, 0, jj)]
         IN  IF jj < par.Nadjacent
             THEN PassFrom(past, ind, j + 1,
                           KillPair(s1, ind, jk, ConnectFlat(jk * ConnectWidth + jj)))
             ELSE PassFrom(past, ind, j + 1, s1)

\* what the memory past the placeholders can hold: a sign and an axis
HeapCells == {<<0, 0>>} \cup {<<sg, ax>> : sg \in {-1, 1}, ax \in 0..2}

BacktrackingIter ==
    /\ pc = "run" /\ alg = "backtracking" /\ k < par.K
    /\ \E scanned \in {Evaluated(ScanR2s(R2s, Gamma_complement, Aij_mj_sum), 6 * N)} :
       \E sel \in {Decode(min_element(scanned, 6 * N))} :
       LET passes == (k > 0) /\ (k % par.backtracking = 0)
           \* cells the pass may read that nothing has written
           unread == IF passes THEN heapjunk \ {sel.skj} ELSE {}
       IN  \E heap \in [unread -> HeapCells] :
           LET ssf0 == [i \in DOMAIN sk_sign_fac |->
                          IF i \in unread THEN heap[i][1] ELSE sk_sign_fac[i]]
               ind0 == [i \in DOMAIN skjj_ind |->
                          IF i \in unread THEN heap[i][2] ELSE skjj_ind[i]]
               ind == [ind0 EXCEPT ![sel.skj] = sel.skjj]
               placed == [x |-> [x EXCEPT ![sel.skj][sel.skjj] = sel.sign_fac],
                          G |-> DisableDipole(Gamma_complement, sel.skj),
                          r |-> AddColumn(Aij_mj_sum, 3 * sel.skj + sel.skjj, sel.sign_fac),
                          ssf |-> [ssf0 EXCEPT ![sel.skj] = sel.sign_fac],
                          oob |-> PastVector(sel.skj)]
           IN  \E s \in {IF passes THEN PassFrom(skj, ind, 1, placed) ELSE placed} :
               /\ skjj_ind' = ind
               /\ heapjunk' = (heapjunk \ {sel.skj}) \ unread
               /\ skj' = Append(skj, sel.skj)
               /\ R2s' = DisableR2s(scanned, sel.skj)
               /\ x' = s.x
               /\ Gamma_complement' = s.G
               /\ Aij_mj_sum' = s.r
               /\ sk_sign_fac' = s.ssf
               /\ \/ Report(GPMOModulus, k, ub \/ s.oob)
                  \/ /\ s.oob
                     /\ pc' = "crashed" /\ ub' = TRUE
                     /\ UNCHANGED <<print_iter, hist>>
    /\ k' = k + 1
    /\ UNCHANGED <<inputs, elsewhere, g, p, ATb, Connect>>

(***************************************************************************)
(* Leaving the main loop.                                                  *)
(***************************************************************************)
Return ==
    /\ pc = "run" /\ k >= par.K
    /\ pc' = "done"
    /\ UNCHANGED <<inputs, elsewhere, g, p, ATb, k, x, Gamma_complement, Aij_mj_sum, R2s,
                   print_iter, hist, skj, sk_sign_fac, skjj_ind, Connect,
                   heapjunk, ub>>

(***************************************************************************)
(* The state at the top of the main loop of a GPMO solver.                 *)
(***************************************************************************)
\* A^T b, as the caller of GPMO_MC supplies it
ATbOf(A, b) ==
    [j \in DOMAIN A |-> SumTo([i \in DOMAIN A[j] |-> A[j][i] * b[i]],
                              Cardinality(DOMAIN A[j]))]

Params(K, verbose, nhistory, sd, nadj, back) ==
    [K |-> K, verbose |-> verbose, nhistory |-> nhistory,
     single_direction |-> sd, Nadjacent |-> nadj, backtracking |-> back]

\* the locals of a GPMO solver after its declarations
EntryState ==
    /\ pc = "run"
    /\ k = 0
    /\ x = [i \in 0..(N - 1) |-> [d \in 0..2 |-> 0]]
    /\ Gamma_complement = [c \in 0..(N3 - 1) |-> TRUE]
    /\ Aij_mj_sum = [i \in DOMAIN b_obj |-> -b_obj[i]]
    /\ R2s = [c \in 0..(6 * N - 1) |-> R2Disabled]
    /\ print_iter = 0
    /\ hist = << >>
    /\ skj = << >>
    /\ ub = FALSE
    /\ m_proxy = << >> /\ m0 = << >> /\ m_maxima = << >>
    /\ g = << >> /\ p = << >>
    /\ ElsewhereIdle

InitBaseline ==
    /\ alg = "baseline"
    /\ A_obj \in [0..(3 * NDip - 1) -> [0..(NGrid - 1) -> AVals]]
    /\ b_obj \in [0..(NGrid - 1) -> BVals]
    /\ ATb = << >>
    /\ dipole_grid_xyz = << >>
    /\ par \in {Params(K, v, h, sd, 0, 0) :
                   K \in 1..MaxK, v \in {FALSE}, h \in 1..MaxHist, sd \in -1..2}
    /\ sk_sign_fac = << >> /\ skjj_ind = << >> /\ Connect = << >>
    /\ heapjunk = {}
    /\ EntryState

InitMC ==
    /\ alg = "MC"
    /\ A_obj \in [0..(3 * NDip - 1) -> [0..(NGrid - 1) -> AVals]]
    /\ b_obj \in [0..(NGrid - 1) -> BVals]
    /\ ATb = ATbOf(A_obj, b_obj)
    /\ dipole_grid_xyz = << >>
    /\ par \in {Params(K, v, h, -1, 0, 0) :
                   K \in 1..MaxK, v \in {FALSE}, h \in 1..MaxHist}
    /\ sk_sign_fac = << >> /\ skjj_ind = << >> /\ Connect = << >>
    /\ heapjunk = {}
    /\ EntryState

\* dipole centres on a line, dipole 0 at the origin
Centres ==
    {c \in [0..(NDip - 1) -> {[d \in 0..2 |-> IF d = 0 THEN pos ELSE 0] : pos \in 0..MaxPos}] :
        c[0][0] = 0}

InitMulti ==
    /\ alg = "multi"
    /\ A_obj \in [0..(3 * NDip - 1) -> [0..(NGrid - 1) -> AVals]]
    /\ b_obj \in [0..(NGrid - 1) -> BVals]
    /\ ATb = << >>
    /\ dipole_grid_xyz \in Centres
    /\ par \in {Params(K, v, h, sd, nadj, 0) :
                   K \in 1..MaxK, v \in {FALSE}, h \in 1..MaxHist, sd \in -1..2,
                   nadj \in 1..MaxAdj}
    /\ sk_sign_fac = << >> /\ skjj_ind = << >>
    /\ Connect = ConnectTable
    /\ heapjunk = {}
    /\ EntryState

InitBacktracking ==
    /\ alg = "backtracking"
    /\ A_obj \in [0..(3 * NDip - 1) -> [0..(NGrid - 1) -> AVals]]
    /\ b_obj \in [0..(NGrid - 1) -> BVals]
    /\ ATb = << >>
    /\ dipole_grid_xyz \in Centres
    /\ par \in {Params(K, v, h, sd, nadj, back) :
                   K \in 1..MaxK, v \in {FALSE}, h \in 1..MaxHist, sd \in -1..2,
                   nadj \in 1..MaxAdj, back \in 1..MaxBack}
    \* vector<double> sk_sign_fac(K), vector<int> skjj_ind(K): zero inside the
    \* vector; what the heap holds past it is settled when first read
    /\ sk_sign_fac = [i \in 0..(NDip - 1) |-> 0]
    /\ skjj_ind = [i \in 0..(NDip - 1) |-> 0]
    /\ heapjunk = {i \in 0..(NDip - 1) : i >= par.K}
    /\ Connect = ConnectTable
    /\ EntryState

\* calls that report: verbose, with K and nhistory independent of each other
InitReport ==
    /\ alg \in {"baseline", "MC"}
    /\ A_obj \in [0..(3 * NDip - 1) -> [0..(NGrid - 1) -> AVals]]
    /\ b_obj \in [0..(NGrid - 1) -> BVals]
    /\ ATb = IF alg = "MC" THEN ATbOf(A_obj, b_obj) ELSE << >>
    /\ dipole_grid_xyz = << >>
    /\ par \in {Params(K, TRUE, h, -1, 0, 0) :
                   K \in 1..MaxReportK, h \in 1..MaxReportHist}
    /\ sk_sign_fac = << >> /\ skjj_ind = << >> /\ Connect = << >>
    /\ heapjunk = {}
    /\ EntryState

\* calls whose b has one entry more than A has grid points
InitMismatch ==
    /\ alg = "baseline"
    /\ A_obj \in [0..(3 * NDip - 1) -> [0..(NGrid - 1) -> AVals]]
    /\ b_obj \in [0..NGrid -> BVals]
    /\ ATb = << >>
    /\ dipole_grid_xyz = << >>
    /\ par \in {Params(K, FALSE, h, -1, 0, 0) : K \in 1..MaxK, h \in 1..MaxHist}
    /\ sk_sign_fac = << >> /\ skjj_ind = << >> /\ Connect = << >>
    /\ heapjunk = {}
    /\ EntryState

Init ==
    \/ InitBaseline \/ InitMC \/ InitMulti \/ InitBacktracking
    \/ InitReport \/ InitMismatch

Next == BaselineIter \/ MCIter \/ MultiIter \/ BacktrackingIter \/ Return

Spec == Init /\ [][Next]_vars

(***************************************************************************)
(* Real numbers of MwPGP.  A finite number is <<n, d, e>>, the value       *)
(* n / d * 10^e in lowest form: d > 0 has no factor 2 or 5, n and d share  *)
(* no factor, n is no multiple of 10, and zero is <<0, 1, 0>>.  d = 0      *)
(* marks what a division by zero leaves: <<0, 0, 0>> is NaN and            *)
(* <<1, 0, 0>>, <<-1, 0, 0>> are the infinities.  Arithmetic is exact, so  *)
(* the rounding of the doubles is not part of the model.                   *)
(***************************************************************************)
\* Op(a) and Op(a, b) with the operands worked out once
Once(Op(_), a) == CHOOSE r \in {Op(t) : t \in {a}} : TRUE
Once2(Op(_, _), a, b) == CHOOSE r \in {Op(t[1], t[2]) : t \in {<<a, b>>}} : TRUE

RECURSIVE GCD(_, _)
GCD(a, b) == IF b = 0 THEN a ELSE GCD(b, a % b)

RECURSIVE Pow10(_)
Pow10(n) == IF n = 0 THEN 1 ELSE 10 * Pow10(n - 1)

\* move the factors 2 and 5 of the denominator into the exponent
RECURSIVE ClearDenominator(_, _, _)
ClearDenominator(n, d, e) ==
    IF d % 2 = 0 THEN ClearDenominator(5 * n, d \div 2, e - 1)
    ELSE IF d % 5 = 0 THEN ClearDenominator(2 * n, d \div 5, e - 1)
    ELSE <<n, d, e>>

\* move the factors 10 of the numerator into the exponent
RECURSIVE StripTens(_, _, _)
StripTens(n, d, e) ==
    IF n % 10 = 0 THEN StripTens(n \div 10, d, e + 1) ELSE <<n, d, e>>

\* the number n / d * 10^e (d > 0) in lowest form
Real(n, d, e) ==
    IF n = 0 THEN <<0, 1, 0>>
    ELSE CHOOSE r \in {StripTens(c[1], c[2], c[3]) :
                         c \in {ClearDenominator(n \div h, d \div h, e) :
                                  h \in {GCD(Abs(n), d)}}} : TRUE

Zero == <<0, 1, 0>>
One == <<1, 1, 0>>
Two == <<2, 1, 0>>
Four == <<4, 1, 0>>
Half == <<5, 1, -1>>
NaN == <<0, 0, 0>>
Infinity(s) == <<s, 0, 0>>

IsFinite(a) == a[2] # 0
IsNaN(a) == a[2] = 0 /\ a[1] = 0
Sign(a) == IF a[1] > 0 THEN 1 ELSE IF a[1] < 0 THEN -1 ELSE 0

Negated(a) == <<-a[1], a[2], a[3]>>
Neg(a) == Once(Negated, a)
Magnitude(a) == <<Abs(a[1]), a[2], a[3]>>
AbsReal(a) == Once(Magnitude, a)

Product(a, b) ==
    IF IsFinite(a) /\ IsFinite(b)
    THEN Real((a[1] \div GCD(Abs(a[1]), b[2])) * (b[1] \div GCD(Abs(b[1]), a[2])),
              (a[2] \div GCD(Abs(b[1]), a[2])) * (b[2] \div GCD(Abs(a[1]), b[2])),
              a[3] + b[3])
    ELSE IF IsNaN(a) \/ IsNaN(b) \/ Sign(a) = 0 \/ Sign(b) = 0 THEN NaN
    ELSE Infinity(Sign(a) * Sign(b))
Mul(a, b) == Once2(Product, a, b)

Total(a, b) ==
    IF IsFinite(a) /\ IsFinite(b)
    THEN IF a[1] = 0 THEN b
         ELSE IF b[1] = 0 THEN a
         ELSE Real(a[1] * b[2] * Pow10(a[3] - Min(a[3], b[3]))
                     + b[1] * a[2] * Pow10(b[3] - Min(a[3], b[3])),
                   a[2] * b[2], Min(a[3], b[3]))
    ELSE IF IsNaN(a) \/ IsNaN(b) THEN NaN
    ELSE IF IsFinite(a) THEN b
    ELSE IF IsFinite(b) THEN a
    ELSE IF a = b THEN a ELSE NaN
Add(a, b) == Once2(Total, a, b)

Sub(a, b) == Add(a, Neg(b))

Quotient(a, b) ==
    IF IsFinite(a) /\ IsFinite(b)
    THEN IF b[1] # 0 THEN Mul(a, Real(Sign(b) * b[2], Abs(b[1]), -b[3]))
         ELSE IF a[1] = 0 THEN NaN ELSE Infinity(Sign(a))
    ELSE IF IsNaN(a) \/ IsNaN(b) THEN NaN
    ELSE IF IsFinite(a) THEN Zero
    ELSE IF IsFinite(b) THEN Infinity(Sign(a) * (IF Sign(b) < 0 THEN -1 ELSE 1))
    ELSE NaN
Div(a, b) == Once2(Quotient, a, b)

\* P * 10^gap < Q and Q * 10^gap <= P for positive integers, without forming
\* the power
RECURSIVE ScaledLess(_, _, _)
ScaledLess(P, gap, Q) ==
    IF gap = 0 THEN P < Q
    ELSE IF P >= Q THEN FALSE
    ELSE ScaledLess(P, gap - 1, (Q + 9) \div 10)
RECURSIVE ScaledLeq(_, _, _)
ScaledLeq(Q, gap, P) ==
    IF gap = 0 THEN Q <= P
    ELSE IF Q > P THEN FALSE
    ELSE ScaledLeq(Q, gap - 1, P \div 10)

\* a < b for finite a, b > 0
LessPositive(a, b) ==
    IF a[3] >= b[3]
    THEN ScaledLess(a[1] * b[2], a[3] - b[3], b[1] * a[2])
    ELSE ~ScaledLeq(b[1] * a[2], b[3] - a[3], a[1] * b[2])

\* a < b as the doubles compare: false when either is NaN
Below(a, b) ==
    IF IsNaN(a) \/ IsNaN(b) THEN FALSE
    ELSE IF ~IsFinite(a) \/ ~IsFinite(b)
    THEN IF ~IsFinite(a) /\ ~IsFinite(b) THEN Sign(a) < Sign(b)
         ELSE IF ~IsFinite(a) THEN Sign(a) < 0 ELSE Sign(b) > 0
    ELSE IF Sign(a) # Sign(b) THEN Sign(a) < Sign(b)
    ELSE IF Sign(a) = 0 THEN FALSE
    ELSE IF Sign(a) > 0 THEN LessPositive(a, b)
    ELSE LessPositive(Negated(b), Negated(a))
Less(a, b) == Once2(Below, a, b)

\* a <= b as the doubles compare
NotAbove(a, b) == ~IsNaN(a) /\ ~IsNaN(b) /\ ~Below(b, a)
Leq(a, b) == Once2(NotAbove, a, b)

\* std::max(a, b)
Larger(a, b) == IF Below(a, b) THEN b ELSE a
MaxReal(a, b) == Once2(Larger, a, b)

\* the largest r with r * r <= n
RECURSIVE RootBetween(_, _, _)
RootBetween(n, lo, hi) ==
    IF lo >= hi THEN lo
    ELSE IF ((lo + hi + 1) \div 2) * ((lo + hi + 1) \div 2) <= n
         THEN RootBetween(n, (lo + hi + 1) \div 2, hi)
         ELSE RootBetween(n, lo, ((lo + hi + 1) \div 2) - 1)

\* the root of a perfect square
ExactRoot(n) == CHOOSE r \in {RootBetween(n, 0, Min(n, 46340))} : r * r = n

\* sqrt(a); the root of a finite a > 0 must be a number of the model (the
\* inputs keep every dipole on the first axis, so every norm is one)
Root(a) ==
    IF ~IsFinite(a) THEN (IF a[1] < 0 THEN NaN ELSE a)
    ELSE IF a[1] < 0 THEN NaN
    ELSE IF a[1] = 0 THEN Zero
    ELSE IF a[3] % 2 = 0
         THEN Real(ExactRoot(a[1]), ExactRoot(a[2]), a[3] \div 2)
         ELSE Real(ExactRoot(10 * a[1]), ExactRoot(a[2]), (a[3] - 1) \div 2)
SqrtReal(a) == Once(Root, a)

\* sum of f[0] .. f[n-1]
RECURSIVE SumReal(_, _)
SumReal(f, n) == IF n = 0 THEN Zero ELSE Add(SumReal(f, n - 1), f[n - 1])

InnerProduct(u, v) == Add(Add(Mul(u[1], v[1]), Mul(u[2], v[2])), Mul(u[3], v[3]))
Dot3(u, v) == Once2(InnerProduct, u, v)
Zero3 == <<Zero, Zero, Zero>>

(***************************************************************************)
(* MwPGP_algorithm.  A_obj[i][j] is the entry of grid point i and flat     *)
(* dipole component j (shape (ngrid, 3N)); x, g, p, ATb, m_proxy and m0    *)
(* map a dipole to the triple of its components, m_maxima to its radius.   *)
(***************************************************************************)
Tol8 == <<1, 1, -8>>
Tol5 == <<1, 1, -5>>
Tol20 == <<1, 1, -20>>
AlphaIgnored == <<1, 1, 100>>
HistorySlots == 21
ReportDivisor == 20

Ndipoles == Cardinality(DOMAIN ATb)
Ngridpoints == Cardinality(DOMAIN A_obj)
Dipoles == 0..(Ndipoles - 1)

DivideAll(v, denom) == <<Div(v[1], denom), Div(v[2], denom), Div(v[3], denom)>>

projection_L2_balls(v, mmax) ==
    Once2(DivideAll, v, MaxReal(One, Div(SqrtReal(Dot3(v, v)), mmax)))

SurfaceTolerance(mmax) == Add(Tol8, Mul(Mul(Tol5, mmax), mmax))

phi_MwPGP(v, gv, mmax) ==
    IF Less(SurfaceTolerance(mmax), AbsReal(Sub(Dot3(v, v), Mul(mmax, mmax))))
    THEN gv ELSE Zero3

g_reduced_gradient(v, gv, alpha, mmax) ==
    CHOOSE r \in
      { <<Div(Sub(v[1], proj[1]), alpha), Div(Sub(v[2], proj[2]), alpha),
          Div(Sub(v[3], proj[3]), alpha)>>
        : proj \in {projection_L2_balls(<<Sub(v[1], Mul(alpha, gv[1])),
                                           Sub(v[2], Mul(alpha, gv[2])),
                                           Sub(v[3], Mul(alpha, gv[3]))>>, mmax)} }
      : TRUE

beta_tilde(v, gv, alpha, mmax) ==
    IF Less(AbsReal(Sub(Dot3(v, v), Mul(mmax, mmax))), SurfaceTolerance(mmax))
    THEN IF Less(Zero, Div(Dot3(v, gv), SqrtReal(Dot3(v, v))))
         THEN gv
         ELSE g_reduced_gradient(v, gv, alpha, mmax)
    ELSE Zero3

Sum3(u, v) == <<Add(u[1], v[1]), Add(u[2], v[2]), Add(u[3], v[3])>>

g_reduced_projected_gradient(v, gv, alpha, mmax) ==
    Once2(Sum3, phi_MwPGP(v, gv, mmax), beta_tilde(v, gv, alpha, mmax))

\* the larger root of a t^2 + b t + c, or 1e100 when a <= 1e-20
LargerRoot(a, b, c) ==
    IF Less(Tol20, a)
    THEN Div(Add(Neg(b), SqrtReal(Sub(Mul(b, b), Mul(Mul(Four, a), c)))),
             Mul(Two, a))
    ELSE AlphaIgnored

find_max_alphaf(v, pv, mmax) ==
    CHOOSE r \in
      { LargerRoot(q[1], q[2], q[3])
        : q \in {<<Dot3(pv, pv), Mul(Neg(Two), Dot3(v, pv)),
                    Sub(Dot3(v, v), Mul(mmax, mmax))>>} } : TRUE

\* component j of the flattened (N, 3) array v
Flat(v, j) == v[j \div 3][(j % 3) + 1]

\* row i of A v
FieldAt(v, i) ==
    SumReal([j \in 0..(3 * Ndipoles - 1) |-> Mul(A_obj[i][j], Flat(v, j))],
            3 * Ndipoles)

\* component j of v A^T A + 2 v (reg_l2 + 1 / (2 nu))
HessianAt(v, j) ==
    Add(SumReal([i \in 0..(Ngridpoints - 1) |-> Mul(A_obj[i][j], FieldAt(v, i))],
                Ngridpoints),
        Mul(Mul(Two, Flat(v, j)), Add(par.reg_l2, Div(One, Mul(Two, par.nu)))))

Hessian(v) ==
    Evaluated([i \in Dipoles |->
                 <<HessianAt(v, 3 * i), HessianAt(v, 3 * i + 1),
                   HessianAt(v, 3 * i + 2)>>], Ndipoles)

\* ATb + m_proxy / nu
ATb_rs ==
    [i \in Dipoles |->
       <<Add(ATb[i][1], Div(m_proxy[i][1], par.nu)),
         Add(ATb[i][2], Div(m_proxy[i][2], par.nu)),
         Add(ATb[i][3], Div(m_proxy[i][3], par.nu))>>]

\* the gradient at v: the Hessian product less ATb_rs
Gradient(v) ==
    Evaluated([i \in Dipoles |->
                 <<Sub(HessianAt(v, 3 * i), ATb_rs[i][1]),
                   Sub(HessianAt(v, 3 * i + 1), ATb_rs[i][2]),
                   Sub(HessianAt(v, 3 * i + 2), ATb_rs[i][3])>>], Ndipoles)

\* phi_MwPGP of every dipole
Phi(v, gv) ==
    Evaluated([i \in Dipoles |-> phi_MwPGP(v[i], gv[i], m_maxima[i])], Ndipoles)

\* sum over the dipoles of u_i . v_i
DotAll(u, v) == SumReal([i \in Dipoles |-> Dot3(u[i], v[i])], Ndipoles)

SquareNorm(v) == Dot3(v, v)

norm_g_alpha_p(xx, gg) ==
    SumReal([i \in Dipoles |->
               Once(SquareNorm,
                    g_reduced_projected_gradient(xx[i], gg[i], par.alpha, m_maxima[i]))],
            Ndipoles)

norm_phi_temp(xx, gg) ==
    SumReal([i \in Dipoles |->
               Once(SquareNorm, phi_MwPGP(xx[i], gg[i], m_maxima[i]))], Ndipoles)

\* b unless a < b
Smaller(a, b) == IF Below(a, b) THEN a ELSE b

\* std::min_element over alpha_fs[0 .. n-1]: the first smallest entry
RECURSIVE MinAlphaTo(_, _)
MinAlphaTo(f, n) ==
    IF n = 1 THEN f[0]
    ELSE Once2(Smaller, f[n - 1], MinAlphaTo(f, n - 1))

alpha_f(xx, pp) ==
    MinAlphaTo([i \in Dipoles |-> find_max_alphaf(xx[i], pp[i], m_maxima[i])],
               Ndipoles)

\* p after a conjugate gradient step: phi less gamma times the old p
NextDirection(ph, pp, gamma) ==
    Evaluated([i \in Dipoles |->
                 <<Sub(ph[i][1], Mul(gamma, pp[i][1])),
                   Sub(ph[i][2], Mul(gamma, pp[i][2])),
                   Sub(ph[i][3], Mul(gamma, pp[i][3]))>>], Ndipoles)

\* u - c v over all dipoles, formed as u += - c * v
Advanced(u, c, v) ==
    Evaluated([i \in Dipoles |->
                 <<Add(u[i][1], Mul(Neg(c), v[i][1])),
                   Add(u[i][2], Mul(Neg(c), v[i][2])),
                   Add(u[i][3], Mul(Neg(c), v[i][3]))>>], Ndipoles)

\* the conjugate gradient step of size acg along pp
CGStep(xx, gg, pp, ATAp, acg, pATAp) ==
    CHOOSE s \in
      { [kind |-> "cg", x |-> x1, g |-> g1,
         p |-> NextDirection(ph, pp, gamma)]
        : x1 \in {Advanced(xx, acg, pp)},
          g1 \in {Advanced(gg, acg, ATAp)},
          ph \in {Phi(Advanced(xx, acg, pp), Advanced(gg, acg, ATAp))},
          gamma \in {Div(DotAll(Phi(Advanced(xx, acg, pp), Advanced(gg, acg, ATAp)),
                                 ATAp), pATAp)} } : TRUE

\* g and p recomputed at x1
Recomputed(kind, x1) ==
    CHOOSE s \in { [kind |-> kind, x |-> x1, g |-> g1, p |-> Phi(x1, g1)]
                   : g1 \in {Gradient(x1)} } : TRUE

\* x moved to the projection of target, g and p recomputed there
ProjectedStep(kind, target) ==
    CHOOSE s \in
      { Recomputed(kind, x1)
        : x1 \in {Evaluated([i \in Dipoles |->
                     projection_L2_balls(target[i], m_maxima[i])], Ndipoles)} } : TRUE

\* the mixed projected gradient step
MixedStep(xx, gg, pp, ATAp, af) ==
    ProjectedStep("mixed",
        [i \in Dipoles |->
           <<Sub(Sub(xx[i][1], Mul(af, pp[i][1])),
                 Mul(par.alpha, Sub(gg[i][1], Mul(af, ATAp[i][1])))),
             Sub(Sub(xx[i][2], Mul(af, pp[i][2])),
                 Mul(par.alpha, Sub(gg[i][2], Mul(af, ATAp[i][2])))),
             Sub(Sub(xx[i][3], Mul(af, pp[i][3])),
                 Mul(par.alpha, Sub(gg[i][3], Mul(af, ATAp[i][3]))))>>])

\* the projected gradient descent step
PGStep(xx, gg) ==
    ProjectedStep("pg",
        [i \in Dipoles |->
           <<Sub(xx[i][1], Mul(par.alpha, gg[i][1])),
             Sub(xx[i][2], Mul(par.alpha, gg[i][2])),
             Sub(xx[i][3], Mul(par.alpha, gg[i][3]))>>])

\* a choice that takes the conjugate gradient step unless alpha_f <= alpha_cg
ChosenStepUnlessLeq(xx, gg, pp, ATAp, ngap, nphi, acg, af, pATAp) ==
    IF Leq(ngap, nphi)
    THEN IF ~Leq(af, acg)
         THEN CGStep(xx, gg, pp, ATAp, acg, pATAp)
         ELSE MixedStep(xx, gg, pp, ATAp, af)
    ELSE PGStep(xx, gg)

\* the step chosen from the two norms and the two step sizes
ChosenStep(xx, gg, pp, ATAp, ngap, nphi, acg, af, pATAp) ==
    IF Leq(ngap, nphi)
    THEN IF Less(acg, af)
         THEN CGStep(xx, gg, pp, ATAp, acg, pATAp)
         ELSE MixedStep(xx, gg, pp, ATAp, af)
    ELSE PGStep(xx, gg)

\* the descent step of one pass of the main loop from (xx, gg, pp)
DescentStep(xx, gg, pp) ==
    CHOOSE s \in
      { ChosenStep(xx, gg, pp, ATAp, q[1], q[2], q[3], q[4], q[5])
        : ATAp \in {Hessian(pp)},
          q \in {<<norm_g_alpha_p(xx, gg), norm_phi_temp(xx, gg),
                    Div(DotAll(gg, pp), DotAll(pp, Hessian(pp))),
                    alpha_f(xx, pp), DotAll(pp, Hessian(pp))>>} } : TRUE

\* x_sum of the convergence test when one thread runs the loop
x_sum(xx, prev) ==
    SumReal([j \in 0..(3 * Ndipoles - 1) |-> AbsReal(Sub(Flat(xx, j), Flat(prev, j)))],
            3 * Ndipoles)

\* x_sum when only the additions of the loop indices in S reach it
x_sum_kept(xx, prev, S) ==
    SumReal([j \in 0..(3 * Ndipoles - 1) |->
               IF (j \div 3) \in S THEN AbsReal(Sub(Flat(xx, j), Flat(prev, j)))
               ELSE Zero], 3 * Ndipoles)

\* values the loop of lines 311-316 can leave in x_sum: the loop indices add
\* to it without a reduction clause, so the additions of one thread can
\* overwrite those of another; with one dipole there is one loop index
x_sum_outcomes(xx, prev) ==
    {x_sum_kept(xx, prev, S) : S \in (SUBSET Dipoles) \ {{}}}

\* R2 as print_MwPGP computes it
Square(a) == Mul(a, a)

R2MwPGP(xx) ==
    Mul(Half, SumReal([i \in 0..(Ngridpoints - 1) |->
                         Once(Square, Sub(FieldAt(xx, i), b_obj[i]))],
                      Ngridpoints))

\* the report at the end of a pass over step s, its min_fb test, and the
\* convergence test; k is the index of the pass
AfterStep(s) ==
    \E converged \in {Less(v, par.epsilon) : v \in x_sum_outcomes(s.x, x)} :
    LET modulus == par.max_iter \div ReportDivisor
        NoReport == /\ pc' = IF converged THEN "done" ELSE "run"
                    /\ UNCHANGED <<print_iter, hist>>
        Reported ==
            /\ hist' = Append(hist, <<print_iter, k, R2MwPGP(s.x)>>)
            /\ IF Less(R2MwPGP(s.x), par.min_fb)
               THEN pc' = "done" /\ print_iter' = print_iter
               ELSE /\ print_iter' = print_iter + 1
                    /\ pc' = IF converged THEN "done" ELSE "run"
        Crashed == pc' = "crashed" /\ UNCHANGED <<print_iter, hist>>
    IN IF ~par.verbose
       THEN NoReport /\ ub' = ub
       ELSE IF modulus = 0
       \* k % 0: the program may stop, or go on with either truth value
       THEN /\ ub' = TRUE
            /\ \/ Crashed
               \/ NoReport
               \/ Reported
       ELSE IF k % modulus = 0 \/ k = 0 \/ k = par.max_iter - 1
       THEN IF print_iter < HistorySlots
            THEN Reported /\ ub' = ub
            \* a write past the last history slot
            ELSE /\ ub' = TRUE
                 /\ \/ Crashed
                    \/ Reported
       ELSE NoReport /\ ub' = ub

\* one pass of the main loop whose descent step is of the given kind
MwPGPPass(kind) ==
    /\ pc = "run" /\ k < par.max_iter
    /\ \E s \in {DescentStep(x, g, p)} :
          /\ s.kind = kind
          /\ x' = s.x /\ g' = s.g /\ p' = s.p
          /\ k' = k + 1
          /\ AfterStep(s)
    /\ UNCHANGED <<inputs, elsewhere, ATb, Gamma_complement, Aij_mj_sum, R2s, skj,
                   sk_sign_fac, skjj_ind, Connect, heapjunk>>

ConjugateGradientPass ==
    /\ alg = "MwPGP"
    /\ MwPGPPass("cg")

MixedPass ==
    /\ alg = "MwPGP"
    /\ MwPGPPass("mixed")

ProjectedGradientPass ==
    /\ alg = "MwPGP"
    /\ MwPGPPass("pg")

MwPGPReturn ==
    /\ alg = "MwPGP" /\ pc = "run" /\ k >= par.max_iter
    /\ pc' = "done"
    /\ UNCHANGED <<inputs, elsewhere, g, p, ATb, k, x, Gamma_complement, Aij_mj_sum, R2s,
                   print_iter, hist, skj, sk_sign_fac, skjj_ind, Connect,
                   heapjunk, ub>>

\* the call with verbose = false, run from (xx, gg, pp) at pass kk to its
\* return: the iterate returned and the number of passes made
RECURSIVE QuietRun(_, _, _, _)
QuietRun(xx, gg, pp, kk) ==
    IF kk >= par.max_iter THEN [x |-> xx, k |-> kk]
    ELSE CHOOSE r \in
           { IF Less(x_sum(s.x, xx), par.epsilon)
             THEN [x |-> s.x, k |-> kk + 1]
             ELSE QuietRun(s.x, s.g, s.p, kk + 1)
             : s \in {DescentStep(xx, gg, pp)} } : TRUE

QuietResult == QuietRun(m0, Gradient(m0), Phi(m0, Gradient(m0)), 0)

(***************************************************************************)
(* Calls of MwPGP_algorithm.  Every dipole has radius 1 and lies on the    *)
(* first axis, and the field couples to the first component of dipole 0.   *)
(* Two families: a well-conditioned fit (A = 1, nu = 1) and a weak field   *)
(* under a loose relaxation (A = 1e-5, nu = 1e10, alpha = 5e9).            *)
(***************************************************************************)
\* dipoles and grid points of an MwPGP call
MwDipoles == 1
MwGrid == 1
\* max_iter runs over 1..MaxQuickIter, ReportDivisor and HistorySlots + 1
MaxQuickIter == 3

Fit == [a |-> One, nu |-> One, alphas |-> {Half, <<25, 1, -2>>},
        bs |-> {Zero, One, Two}]
Weak == [a |-> <<1, 1, -5>>, nu |-> <<1, 1, 10>>, alphas |-> {<<5, 1, 9>>},
         bs |-> {Zero, <<1, 1, -5>>, <<23, 1, -6>>}]

M0Vals == {Zero, <<75, 1, -2>>, One, Neg(One)}
ProxyVals == {Zero, Half}
EpsilonVals == {Zero, <<1, 1, -3>>}
MinFbVals == {Zero, Half}
MaxIterVals == (1..MaxQuickIter) \cup {ReportDivisor, HistorySlots + 1}

OnAxis(c) == [i \in 0..(MwDipoles - 1) |-> <<c, Zero, Zero>>]

\* A^T b in shape (N, 3), as the caller of MwPGP_algorithm supplies it
ATbMwPGP(A, b) ==
    [i \in 0..(MwDipoles - 1) |->
       <<SumReal([r \in 0..(MwGrid - 1) |-> Mul(A[r][3 * i], b[r])], MwGrid),
         SumReal([r \in 0..(MwGrid - 1) |-> Mul(A[r][3 * i + 1], b[r])], MwGrid),
         SumReal([r \in 0..(MwGrid - 1) |-> Mul(A[r][3 * i + 2], b[r])], MwGrid)>>]

InitMwPGP ==
    /\ alg = "MwPGP"
    /\ \E f \in {Fit, Weak} :
          /\ A_obj = [r \in 0..(MwGrid - 1) |->
                        [j \in 0..(3 * MwDipoles - 1) |->
                           IF j = 0 THEN f.a ELSE Zero]]
          /\ b_obj \in {[r \in 0..(MwGrid - 1) |-> bb] : bb \in f.bs}
          /\ par \in {[alpha |-> al, nu |-> f.nu, epsilon |-> ep,
                       reg_l0 |-> Zero, reg_l1 |-> Zero, reg_l2 |-> Zero,
                       max_iter |-> mi, min_fb |-> fb, verbose |-> v] :
                         al \in f.alphas, ep \in EpsilonVals,
                         mi \in MaxIterVals, fb \in MinFbVals, v \in BOOLEAN}
    /\ ATb = ATbMwPGP(A_obj, b_obj)
    /\ m_proxy \in {OnAxis(c) : c \in ProxyVals}
    /\ m0 \in {OnAxis(c) : c \in M0Vals}
    /\ m_maxima = [i \in 0..(MwDipoles - 1) |-> One]
    /\ dipole_grid_xyz = << >>
    /\ pc = "run"
    /\ k = 0
    /\ x = m0
    /\ g = Gradient(m0)
    /\ p = Phi(m0, g)
    /\ print_iter = 0
    /\ hist = << >>
    /\ ub = FALSE
    /\ Gamma_complement = << >> /\ Aij_mj_sum = << >> /\ R2s = << >>
    /\ skj = << >> /\ sk_sign_fac = << >> /\ skjj_ind = << >>
    /\ Connect = << >> /\ heapjunk = {}
    /\ ElsewhereIdle

NextMwPGP ==
    \/ ConjugateGradientPass \/ MixedPass \/ ProjectedGradientPass
    \/ MwPGPReturn

SpecMwPGP == InitMwPGP /\ [][NextMwPGP]_vars

(***************************************************************************)
(* Parallel regions.  A region is run by a team of threads; every thread   *)
(* runs the loop indices given to it in increasing order, and the steps of *)
(* different threads interleave.  A read-modify-write of a shared location *)
(* is a load into a register of the loop index followed by a store.        *)
(* Modelled: the convergence sum of MwPGP_algorithm ("x_sum"), and the     *)
(* direction ("dk") and dot product ("dq") regions of SPG.  Arrays hold    *)
(* integers here and a row of an (N, 3) array moves as a unit.             *)
(***************************************************************************)
\* loop indices of a region and threads of the team
OmpIndices == 2
OmpThreads == 2

Indices == 0..(OmpIndices - 1)
Threads == 0..(OmpThreads - 1)

ZeroRow == <<0, 0, 0>>
RowSub(u, v) == <<u[1] - v[1], u[2] - v[2], u[3] - v[3]>>
RowDot(u, v) == u[1] * v[1] + u[2] * v[2] + u[3] * v[3]

\* a static schedule: contiguous chunks of indices, in thread order
Schedules ==
    {s \in [Indices -> Threads] :
        /\ s[0] = 0
        /\ \A i \in Indices : i > 0 => s[i] \in {s[i - 1], s[i - 1] + 1}}

\* steps a loop index takes in each region
StepsOf(r) ==
    IF r = "x_sum" THEN 6
    ELSE IF r = "dk" THEN 1 + 2 * OmpIndices
    ELSE 1

\* index i is the next one of its thread
Runnable(i) ==
    /\ ~joined
    /\ tpc[i] < StepsOf(region)
    /\ \A j \in Indices : (j < i /\ sched[j] = sched[i]) => tpc[j] = StepsOf(region)

\* what no step of a region changes
RegionFrame ==
    UNCHANGED <<region, sched, rin, inputs, g, p, ATb, pc, k, x,
                Gamma_complement, Aij_mj_sum, R2s, print_iter, hist, skj,
                sk_sign_fac, skjj_ind, Connect, heapjunk, ub, searchVars>>

Stepped(i) == tpc' = [tpc EXCEPT ![i] = @ + 1] /\ UNCHANGED joined /\ RegionFrame
Wrote(loc, i) == writers' = [writers EXCEPT ![loc] = @ \cup {i}]

\* x_sum += abs(x_k1(i, ii) - x_k_prev(i, ii)): the load of x_sum
XSumLoad(i) ==
    /\ region = "x_sum" /\ Runnable(i) /\ tpc[i] % 2 = 0
    /\ treg' = [treg EXCEPT ![i] = mem[<<"x_sum", 0>>]]
    /\ Stepped(i)
    /\ UNCHANGED <<mem, writers, priv>>

\* ... and the store of the sum
XSumStore(i) ==
    /\ region = "x_sum" /\ Runnable(i) /\ tpc[i] % 2 = 1
    /\ mem' = [mem EXCEPT ![<<"x_sum", 0>>] =
                 treg[i] + Abs(rin.x_k1[i][(tpc[i] \div 2) + 1]
                               - rin.x_k_prev[i][(tpc[i] \div 2) + 1])]
    /\ Wrote(<<"x_sum", 0>>, i)
    /\ Stepped(i)
    /\ UNCHANGED <<treg, priv>>

\* projq(i, :) = projection_L2_balls(...)
ProjqWrite(i) ==
    /\ region = "dk" /\ Runnable(i) /\ tpc[i] = 0
    /\ mem' = [mem EXCEPT ![<<"projq", i>>] = rin.projected[i]]
    /\ Wrote(<<"projq", i>>, i)
    /\ Stepped(i)
    /\ UNCHANGED <<treg, priv>>

\* dk = projq - xk, row (tpc - 1) / 2: the load of the projq row
DkLoad(i) ==
    /\ region = "dk" /\ Runnable(i) /\ tpc[i] > 0 /\ tpc[i] % 2 = 1
    /\ treg' = [treg EXCEPT ![i] = mem[<<"projq", (tpc[i] - 1) \div 2>>]]
    /\ Stepped(i)
    /\ UNCHANGED <<mem, writers, priv>>

\* ... and the store of the dk row
DkStore(i) ==
    /\ region = "dk" /\ Runnable(i) /\ tpc[i] > 0 /\ tpc[i] % 2 = 0
    /\ mem' = [mem EXCEPT ![<<"dk", (tpc[i] - 2) \div 2>>] =
                 RowSub(treg[i], rin.xk[(tpc[i] - 2) \div 2])]
    /\ Wrote(<<"dk", (tpc[i] - 2) \div 2>>, i)
    /\ Stepped(i)
    /\ UNCHANGED <<treg, priv>>

\* dq_PQNTdk = dqPQN(i, :) . dk(i, :), on the thread's copy of the
\* reduction variable
DqAssign(i) ==
    /\ region = "dq" /\ Runnable(i)
    /\ priv' = [priv EXCEPT ![sched[i]] = RowDot(rin.dqPQN[i], rin.dk[i])]
    /\ Stepped(i)
    /\ UNCHANGED <<mem, treg, writers>>

\* the end of the region: the copies of a reduction variable are added to it
RegionJoin ==
    /\ region # "none" /\ ~joined
    /\ \A i \in Indices : tpc[i] = StepsOf(region)
    /\ joined' = TRUE
    /\ mem' = IF region = "dq"
              THEN [mem EXCEPT ![<<"dq_PQNTdk", 0>>] =
                      @ + SumTo([t \in Threads |-> priv[t]], OmpThreads)]
              ELSE mem
    /\ UNCHANGED <<tpc, treg, priv, writers>>
    /\ RegionFrame

\* rows of the arrays a region reads
RowVals == {ZeroRow, <<1, 0, 0>>, <<0, 2, 0>>}

RegionEntry(locs) ==
    /\ sched \in Schedules
    /\ tpc = [i \in Indices |-> 0]
    /\ treg = [i \in Indices |-> 0]
    /\ priv = [t \in Threads |-> 0]
    /\ writers = [l \in locs |-> {}]
    /\ joined = FALSE

\* the region of lines 310-316, entered with x_sum = 0
InitXSum ==
    /\ region = "x_sum"
    /\ rin \in {[x_k1 |-> a, x_k_prev |-> [i \in Indices |-> ZeroRow]] :
                  a \in [Indices -> RowVals]}
    /\ mem = [l \in {<<"x_sum", 0>>} |-> 0]
    /\ RegionEntry({<<"x_sum", 0>>})

DkLocations == {<<"projq", i>> : i \in Indices} \cup {<<"dk", i>> : i \in Indices}

\* the region of lines 1071-1075 in the first pass of SPG: projq and dk are
\* zero
InitDk ==
    /\ region = "dk"
    /\ rin \in {[xk |-> a, projected |-> b] :
                  a \in [Indices -> {ZeroRow, <<1, 0, 0>>}],
                  b \in [Indices -> {<<1, 0, 0>>, <<0, 2, 0>>}]}
    /\ mem = [l \in DkLocations |-> ZeroRow]
    /\ RegionEntry(DkLocations)

\* the region of lines 1086-1089, entered with dq_PQNTdk = 0
InitDq ==
    /\ region = "dq"
    /\ rin \in {[dqPQN |-> a, dk |-> b] :
                  a \in [Indices -> {<<1, 0, 0>>, <<0, 2, 0>>}],
                  b \in [Indices -> {<<1, 0, 0>>, <<0, 2, 0>>}]}
    /\ mem = [l \in {<<"dq_PQNTdk", 0>>} |-> 0]
    /\ RegionEntry({<<"dq_PQNTdk", 0>>})

\* no solver call is in progress in the states of a region
NoSolver ==
    /\ alg = "region"
    /\ A_obj = << >> /\ b_obj = << >> /\ ATb = << >> /\ dipole_grid_xyz = << >>
    /\ par = << >> /\ pc = "run" /\ k = 0 /\ x = << >>
    /\ Gamma_complement = << >> /\ Aij_mj_sum = << >> /\ R2s = << >>
    /\ print_iter = 0 /\ hist = << >> /\ skj = << >> /\ sk_sign_fac = << >>
    /\ skjj_ind = << >> /\ Connect = << >> /\ heapjunk = {} /\ ub = FALSE
    /\ m_proxy = << >> /\ m0 = << >> /\ m_maxima = << >>
    /\ g = << >> /\ p = << >>
    /\ SearchIdle

InitRegion == NoSolver /\ (InitXSum \/ InitDk \/ InitDq)

NextRegion ==
    \/ \E i \in Indices : XSumLoad(i)
    \/ \E i \in Indices : XSumStore(i)
    \/ \E i \in Indices : ProjqWrite(i)
    \/ \E i \in Indices : DkLoad(i)
    \/ \E i \in Indices : DkStore(i)
    \/ \E i \in Indices : DqAssign(i)
    \/ RegionJoin

SpecRegion == InitRegion /\ [][NextRegion]_vars

\* what the region leaves when one thread runs every index in order
SequentialResult ==
    IF region = "x_sum"
    THEN [l \in {<<"x_sum", 0>>} |->
            SumTo([c \in 0..(3 * OmpIndices - 1) |->
                     Abs(rin.x_k1[c \div 3][(c % 3) + 1]
                         - rin.x_k_prev[c \div 3][(c % 3) + 1])], 3 * OmpIndices)]
    ELSE IF region = "dk"
    THEN [l \in DkLocations |->
            IF l[1] = "projq" THEN rin.projected[l[2]]
            ELSE RowSub(rin.projected[l[2]], rin.xk[l[2]])]
    ELSE [l \in {<<"dq_PQNTdk", 0>>} |->
            RowDot(rin.dqPQN[OmpIndices - 1], rin.dk[OmpIndices - 1])]

(***************************************************************************)
(* The backtracking line searches of PQN_algorithm and SPG, in the first   *)
(* pass of the main loop of each.  One dipole, one grid point; the field   *)
(* couples to the first component of the dipole.                           *)
(***************************************************************************)
\* executions of the loop body the model tells apart
MaxPasses == 2

\* 0.5 * |A v - b|^2 + 0.5 * |v - m_proxy|^2 / nu + reg_l2 * |v|^2
SmoothObjective(v) ==
    Add(Add(Mul(Half, SumReal([i \in 0..(Ngridpoints - 1) |->
                                 Once(Square, Sub(FieldAt(v, i), b_obj[i]))],
                              Ngridpoints)),
            Div(Mul(Half, SumReal([j \in 0..(3 * Ndipoles - 1) |->
                                     Once(Square, Sub(Flat(v, j), Flat(m_proxy, j)))],
                                  3 * Ndipoles)),
                par.nu)),
        Mul(par.reg_l2, SumReal([j \in 0..(3 * Ndipoles - 1) |->
                                   Once(Square, Flat(v, j))], 3 * Ndipoles)))

f_PQN(v) == SmoothObjective(v)
q_PQN(v) == SmoothObjective(v)

\* v A^T A + 2 v (reg_l2 + 1 / (2 nu)) - ATb_rs
dq_PQN(v) == Gradient(v)

\* double cubic_interp(double alpha) { return alpha; }
cubic_interp(a) == a

\* v + a * d
Shifted(v, a, d) ==
    Evaluated([i \in Dipoles |->
                 <<Add(v[i][1], Mul(a, d[i][1])), Add(v[i][2], Mul(a, d[i][2])),
                   Add(v[i][3], Mul(a, d[i][3]))>>], Ndipoles)

\* v - w
Difference(v, w) ==
    Evaluated([i \in Dipoles |->
                 <<Sub(v[i][1], w[i][1]), Sub(v[i][2], w[i][2]),
                   Sub(v[i][3], w[i][3])>>], Ndipoles)

\* projection_L2_balls of every row of v
Projected(v) ==
    Evaluated([i \in Dipoles |-> projection_L2_balls(v[i], m_maxima[i])], Ndipoles)

\* PQN_algorithm, k = 0, from the gradient read to the line before the loop.
\* df_PQN sizes its result with int(xk.shape(0) / 3) rows, none for one
\* dipole, so the reads gk(i, ii) leave the array: gk_read is what they find.
PQNFrame(gk_read) ==
    CHOOSE fr \in
      { [xk |-> xk0, dk |-> dk0, fk |-> f_PQN(xk0),
         gkTdk |-> DotAll(gk_read, dk0),
         fk1 |-> f_PQN(Shifted(xk0, One, dk0)),
         \* if (convergence_sum < epsilon) break;
         breaks |-> Less(SumReal([i \in Dipoles |->
                                    SqrtReal(Dot3(moved[i], moved[i]))], Ndipoles),
                         par.epsilon)]
        : xk0 \in {[i \in Dipoles |-> Zero3]},
          \* dk = - gk / gknorm
          dk0 \in {Evaluated([i \in Dipoles |->
                     DivideAll(<<Neg(gk_read[i][1]), Neg(gk_read[i][2]),
                                 Neg(gk_read[i][3])>>,
                               DotAll(gk_read, gk_read))], Ndipoles)},
          \* proj_xk_minus_gk - xk, with xk = 0
          moved \in {Projected(Difference([i \in Dipoles |-> Zero3], gk_read))} } : TRUE

\* max_temp = std::max(alpha_min, alpha_bb_prev);
\* alphak_bar = std::min(alpha_max, max_temp);
ClippedStep(prev) == Smaller(par.alpha_max, MaxReal(par.alpha_min, prev))

\* SPG, pass kk of the main loop from its top to the line before the inner
\* loop, entered with iterate xv and reference value fbv.  With one dipole
\* each parallel loop over the dipoles has one index.  The loop that sets fb
\* runs over max(0, kk - h) <= i < kk, not at all for kk = 0, and its
\* max-reduction joins f_PQN(xk) with the fb the pass started with.
SPGPass(xv, fbv, kk) ==
    CHOOSE fr \in
      { [xk |-> xv, dk |-> dk0, alphak_bar |-> ab,
         fk |-> IF kk > 0 THEN MaxReal(fbv, f_PQN(xv)) ELSE fbv,
         gkTdk |-> Dot3(dqPQN[Ndipoles - 1], dk0[Ndipoles - 1]),
         fk1 |-> q_PQN(Shifted(xv, One, dk0)),
         breaks |-> FALSE]
        : ab \in {ClippedStep(par.alpha_bb_prev)},
          dqPQN \in {dq_PQN(xv)},
          dk0 \in {Difference(
                     Projected(Shifted(xv, Neg(ClippedStep(par.alpha_bb_prev)),
                                       dq_PQN(xv))),
                     xv)} } : TRUE

\* SPG, k = 0: xk = m0, fb = 0.0
SPGFrame == SPGPass(m0, Zero, 0)

\* the factor of the sufficient-decrease test: nu in PQN_algorithm, nu_SPG
\* in SPG
DecreaseFactor == IF alg = "PQN" THEN par.nu ELSE par.nu_SPG

\* while (fk1 > fk + alpha * nu * gkTdk)
\* while (qk > fb + nu_SPG * alpha * dq_PQNTdk)
LineSearchTest ==
    /\ alg \in {"PQN", "SPG"} /\ lpc = "test"
    /\ lpc' = IF Less(Add(fk, Mul(Mul(alpha_ls, DecreaseFactor), gkTdk)), fk1)
              THEN "body" ELSE "accepted"
    /\ UNCHANGED <<inputs, regionVars, xk, dk, fk, gkTdk, fk1, alpha_ls, npass,
                   alpha_bb, alphak_bar, g, p, ATb, pc, k, x, Gamma_complement, Aij_mj_sum, R2s,
                   print_iter, hist, skj, sk_sign_fac, skjj_ind, Connect,
                   heapjunk, ub>>

\* alpha = cubic_interp(alpha); xk1 = xk + alpha * dk; fk1 = f_PQN(xk1)
\* alpha = cubic_interp(alpha); xk_shift = xk + alpha * dk; qk = q_PQN(xk_shift)
LineSearchBody ==
    /\ alg \in {"PQN", "SPG"} /\ lpc = "body"
    /\ \E a \in {cubic_interp(alpha_ls)} :
          /\ alpha_ls' = a
          /\ fk1' = IF alg = "PQN" THEN f_PQN(Shifted(xk, a, dk))
                    ELSE q_PQN(Shifted(xk, a, dk))
    /\ npass' = Min(npass + 1, MaxPasses)
    /\ lpc' = "test"
    /\ UNCHANGED <<inputs, regionVars, xk, dk, fk, gkTdk, alpha_bb, alphak_bar,
                   g, p, ATb, pc, k, x, Gamma_complement, Aij_mj_sum, R2s,
                   print_iter, hist, skj, sk_sign_fac, skjj_ind, Connect,
                   heapjunk, ub>>

\* SPG, lines 1101-1111: xk1 = xk + alpha * dk, sk = xk1 - xk,
\* yk = dq_PQN(xk1) - dqPQN, and the two sums of the reduction
xk1 == Shifted(xk, alpha_ls, dk)
sk == Difference(xk1, xk)
yk == Difference(dq_PQN(xk1), dq_PQN(xk))
yTy == DotAll(yk, yk)
sTy == DotAll(sk, yk)

\* SPG, from the end of the inner loop to the inner loop of the next pass of
\* the main loop, or to the return when k + 1 = max_iter:
\* alpha_bb = yTy / sTy; xk = xk1; ++k; then the top of the next pass, which
\* clips alpha_bb_prev, the argument of the call
SPGUpdate ==
    /\ alg = "SPG" /\ lpc = "accepted"
    /\ alpha_bb' = Div(yTy, sTy)
    /\ xk' = xk1
    /\ k' = k + 1
    /\ npass' = 0
    /\ IF k + 1 < par.max_iter
       THEN \E fr \in {SPGPass(xk1, fk, k + 1)} :
               /\ dk' = fr.dk /\ fk' = fr.fk /\ gkTdk' = fr.gkTdk
               /\ fk1' = fr.fk1 /\ alphak_bar' = fr.alphak_bar
               /\ alpha_ls' = One
               /\ lpc' = "test"
       ELSE /\ lpc' = "returned"
            /\ UNCHANGED <<dk, fk, gkTdk, fk1, alphak_bar, alpha_ls>>
    /\ UNCHANGED <<inputs, regionVars, g, p, ATb, pc, x, Gamma_complement,
                   Aij_mj_sum, R2s, print_iter, hist, skj, sk_sign_fac,
                   skjj_ind, Connect, heapjunk, ub>>

\* passes of the main loop of SPG the calls ask for
MaxSearchIter == 3

\* what the reads of gk outside its allocation can find
GkVals == {Neg(Two), Neg(One), Half, Two}
\* arguments of the calls
SearchBVals == {Zero, One, Two}
SearchNuVals == {One, Two}
AlphaBBVals == {<<1, 1, -1>>, One}
SearchM0Vals == {Zero, Half, One, Neg(One)}

InitSearch ==
    /\ alg \in {"PQN", "SPG"}
    /\ A_obj = [r \in 0..(MwGrid - 1) |->
                  [j \in 0..(3 * MwDipoles - 1) |-> IF j = 0 THEN One ELSE Zero]]
    /\ b_obj \in {[r \in 0..(MwGrid - 1) |-> bb] : bb \in SearchBVals}
    \* SPG is called as PQN_algorithm calls it: alpha_min = 1e-10,
    \* alpha_max = 1e10, nu_SPG = 1e-4
    /\ par \in {[nu |-> nv, reg_l2 |-> Zero, epsilon |-> ep,
                 alpha_min |-> <<1, 1, -10>>, alpha_max |-> <<1, 1, 10>>,
                 alpha_bb_prev |-> ab, nu_SPG |-> <<1, 1, -4>>,
                 max_iter |-> mi] :
                   nv \in SearchNuVals, ep \in EpsilonVals,
                   ab \in IF alg = "SPG" THEN AlphaBBVals ELSE {<<1, 1, -1>>},
                   mi \in 1..MaxSearchIter}
    /\ ATb = ATbMwPGP(A_obj, b_obj)
    /\ m_proxy \in {OnAxis(c) : c \in ProxyVals}
    /\ m0 \in IF alg = "SPG" THEN {OnAxis(c) : c \in SearchM0Vals} ELSE {OnAxis(Zero)}
    /\ m_maxima = [i \in 0..(MwDipoles - 1) |-> One]
    /\ dipole_grid_xyz = << >>
    /\ \E fr \in IF alg = "PQN" THEN {PQNFrame(OnAxis(c)) : c \in GkVals}
                 ELSE {SPGFrame} :
          /\ ~fr.breaks
          /\ xk = fr.xk /\ dk = fr.dk /\ fk = fr.fk /\ gkTdk = fr.gkTdk
          /\ fk1 = fr.fk1
          /\ alphak_bar = IF alg = "SPG" THEN fr.alphak_bar ELSE << >>
    \* double alpha_bb = 0.0 in SPG, 0.1 in PQN_algorithm
    /\ alpha_bb = IF alg = "SPG" THEN Zero ELSE <<1, 1, -1>>
    \* alpha = 1.0
    /\ alpha_ls = One
    /\ npass = 0
    /\ lpc = "test"
    /\ pc = "run" /\ k = 0 /\ x = << >> /\ g = << >> /\ p = << >>
    /\ print_iter = 0 /\ hist = << >> /\ ub = FALSE
    /\ Gamma_complement = << >> /\ Aij_mj_sum = << >> /\ R2s = << >>
    /\ skj = << >> /\ sk_sign_fac = << >> /\ skjj_ind = << >>
    /\ Connect = << >> /\ heapjunk = {}
    /\ RegionIdle

NextSearch == LineSearchTest \/ LineSearchBody \/ SPGUpdate

SpecSearch == InitSearch /\ [][NextSearch]_vars

\* a loop that is running executes its next statement
SpecSearchFair ==
    /\ SpecSearch
    /\ WF_vars(LineSearchTest) /\ WF_vars(LineSearchBody) /\ WF_vars(SPGUpdate)

(***************************************************************************)
(* connectivity_matrix over the doubles.  The GPMO calls above keep the    *)
(* centres a few units apart, where the value 1e10 that eliminates an      *)
(* entry of dist_ij is larger than every distance.  Here the coordinates   *)
(* are numbers <<n, d, e>>, the value 1e10 is itself, and the centres lie  *)
(* up to 1.2e10 apart on the first axis.                                   *)
(***************************************************************************)
\* number of dipoles of a call
ConnDipoles == 3

\* first coordinates of the centres: 0, 1e9, 2e9, 1.2e10
CentreVals == {Zero, <<1, 1, 9>>, <<2, 1, 9>>, <<12, 1, 9>>}

\* dist_ij[dist_ind] = 1e10
Eliminated == <<1, 1, 10>>

\* dist_ij of row j as the first inner loop leaves it
dist_ij(j) ==
    Evaluated([i \in 0..(Ndipole - 1) |->
        SqrtReal(Add(Add(Once(Square, Sub(dipole_grid_xyz[i][0], dipole_grid_xyz[j][0])),
                         Once(Square, Sub(dipole_grid_xyz[i][1], dipole_grid_xyz[j][1]))),
                     Once(Square, Sub(dipole_grid_xyz[i][2], dipole_grid_xyz[j][2]))))],
              Ndipole)

\* std::min_element(dist_ij.begin(), dist_ij.end()): the first smallest entry
RECURSIVE MinDistFrom(_, _, _, _)
MinDistFrom(v, n, i, best) ==
    IF i = n THEN best
    ELSE MinDistFrom(v, n, i + 1, IF Less(v[i], v[best]) THEN i ELSE best)
dist_ind(v) == MinDistFrom(v, Ndipole, 1, 0)

\* connectivity_inds(j, 0), ..., connectivity_inds(j, n - 1) from dist_ij = v
RECURSIVE RowFrom(_, _)
RowFrom(v, n) ==
    IF n = 0 THEN << >>
    ELSE <<dist_ind(v)>> \o RowFrom([v EXCEPT ![dist_ind(v)] = Eliminated], n - 1)

\* row j of connectivity_inds, columns 0 .. min(Ndipole, 2000) - 1, as a
\* function of the column
connectivity_inds(j) ==
    [col \in 0..(Min(Ndipole, ConnectWidth) - 1) |->
        RowFrom(dist_ij(j), Min(Ndipole, ConnectWidth))[col + 1]]

\* one pass of the parallel loop over j; the passes share nothing, so their
\* order does not matter and the model takes them in index order
ConnectivityRow ==
    /\ alg = "connectivity" /\ pc = "run"
    /\ Connect' = [j \in 0..k |-> IF j = k THEN connectivity_inds(k) ELSE Connect[j]]
    /\ k' = k + 1
    /\ pc' = IF k + 1 = Ndipole THEN "done" ELSE "run"
    /\ UNCHANGED <<inputs, elsewhere, ATb, x, Gamma_complement, Aij_mj_sum, R2s,
                   print_iter, hist, skj, sk_sign_fac, skjj_ind, heapjunk, ub,
                   g, p>>

InitConnect ==
    /\ alg = "connectivity"
    /\ dipole_grid_xyz \in
          [0..(ConnDipoles - 1) ->
              {[d \in 0..2 |-> IF d = 0 THEN c ELSE Zero] : c \in CentreVals}]
    /\ A_obj = << >> /\ b_obj = << >> /\ ATb = << >> /\ par = << >>
    /\ pc = "run" /\ k = 0 /\ x = << >>
    /\ Gamma_complement = << >> /\ Aij_mj_sum = << >> /\ R2s = << >>
    /\ print_iter = 0 /\ hist = << >> /\ skj = << >> /\ sk_sign_fac = << >>
    /\ skjj_ind = << >> /\ Connect = << >> /\ heapjunk = {} /\ ub = FALSE
    /\ m_proxy = << >> /\ m0 = << >> /\ m_maxima = << >>
    /\ g = << >> /\ p = << >>
    /\ ElsewhereIdle

NextConnect == ConnectivityRow

SpecConnect == InitConnect /\ [][NextConnect]_vars

(***************************************************************************)
(* Properties of the GPMO solvers.                                         *)
(***************************************************************************)
\* entry i of A x - b for the current x
Residual(i) ==
    SumTo([j \in 0..(N3 - 1) |-> A_obj[j][i] * x[j \div 3][j % 3]], N3) - b_obj[i]

\* the scan of the state's solver finds no slot to evaluate
NoSlotLeft ==
    IF alg = "MC"
    THEN \A j \in 0..(N3 - 1) : ~Gamma_complement[j]
    ELSE \A j \in 0..(N3 - 1) : ~(Scanned(j) /\ Gamma_complement[j])

\* the step is one iteration of the main loop that ends without undefined
\* behaviour
DefinedIteration == k' = k + 1 /\ ~ub'

\* C1: GPMO binarity.  After every main-loop iteration of every GPMO variant
\* each row of x has at most one nonzero entry, and that entry is +1 or -1.
C1_Binarity ==
    ~ub => \A i \in DOMAIN x :
              /\ Cardinality({d \in 0..2 : x[i][d] # 0}) <= 1
              /\ \A d \in 0..2 : x[i][d] \in {-1, 0, 1}

\* C2: GPMO residual consistency.  After every main-loop iteration of every
\* GPMO variant the running sum Aij_mj_sum equals A x - b for the current x.
C2_ResidualConsistency ==
    ~ub => \A i \in 0..(ngrid - 1) : Aij_mj_sum[i] = Residual(i)

\* C3: availability mask.  After every main-loop iteration the three mask
\* entries of a dipole are equal, and false exactly when its row of x has a
\* nonzero entry.
C3_MaskInvariant ==
    ~ub => \A i \in DOMAIN x :
              /\ Gamma_complement[3 * i] = Gamma_complement[3 * i + 1]
              /\ Gamma_complement[3 * i] = Gamma_complement[3 * i + 2]
              /\ ~Gamma_complement[3 * i] <=> (\E d \in 0..2 : x[i][d] # 0)

\* C4 as the specification states it: in GPMO_MC the squared residual norm
\* after an iteration is at most the squared residual norm before it.
C4_MonotoneR2 ==
    [][(alg = "MC" /\ DefinedIteration) => SqNorm(Aij_mj_sum') <= SqNorm(Aij_mj_sum)]_vars

\* the column GPMO_MC selects in the current state
MCSelected == max_element(Evaluated(AbsUk(Gamma_complement, ATb), N3), N3)

\* a . r and a . a for column c of A
ColumnDotResidual(c) ==
    SumTo([i \in 0..(ngrid - 1) |-> A_obj[c][i] * Aij_mj_sum[i]], ngrid)
ColumnSqNorm(c) == SumTo([i \in 0..(ngrid - 1) |-> A_obj[c][i] * A_obj[c][i]], ngrid)

\* C4, amended: in GPMO_MC the squared residual norm after an iteration is
\* the smaller of the two the selected column a can give,
\* |r|^2 + |a|^2 - 2 |a . r|; it does not exceed the norm before the
\* iteration exactly when |a|^2 <= 2 |a . r|.
C4_SignChoiceR2 ==
    [][(alg = "MC" /\ DefinedIteration) =>
          /\ SqNorm(Aij_mj_sum') = SqNorm(Aij_mj_sum) + ColumnSqNorm(MCSelected)
                                     - 2 * Abs(ColumnDotResidual(MCSelected))
          /\ (SqNorm(Aij_mj_sum') <= SqNorm(Aij_mj_sum)
                <=> ColumnSqNorm(MCSelected) <= 2 * Abs(ColumnDotResidual(MCSelected)))
      ]_vars

\* an iteration of GPMO_MC was reported right after another and wrote a
\* larger R2 than it
C4_Witness ==
    /\ alg = "MC" /\ ~ub
    /\ \E n \in 1..(Len(hist) - 1) :
          hist[n + 1][2] = hist[n][2] + 1 /\ hist[n + 1][3] > hist[n][3]

\* C5: exhaustion.  An iteration that finds no selectable slot places
\* nothing: x, the mask and the running residual stay as they were.
C5_ExhaustionStops ==
    [][(DefinedIteration /\ NoSlotLeft) =>
          /\ x' = x
          /\ Gamma_complement' = Gamma_complement
          /\ Aij_mj_sum' = Aij_mj_sum]_vars

\* the caller's b does not have one entry per grid point of A
ShapesDisagree == Cardinality(DOMAIN b_obj) # ngrid

\* C6: shape checking.  A call with inconsistent shapes fails at entry: no
\* iteration is performed and no array is written.
C6_ShapeChecked ==
    ShapesDisagree => /\ k = 0
                      /\ pc # "done"
                      /\ \A i \in DOMAIN x : \A d \in 0..2 : x[i][d] = 0

\* the sampling modulus of the state's solver
ReportModulus == IF alg = "MC" THEN MCModulus ELSE GPMOModulus

\* C7: history capacity (GPMO).  Every write into the history arrays uses a
\* slot below their capacity nhistory + 1.
C7_HistoryCapacity ==
    ReportModulus # 0 => \A n \in 1..Len(hist) : hist[n][1] < par.nhistory + 1

\* C9: inputs are read-only.  No step of a solver changes a caller-supplied
\* array.
C9_InputsReadOnly ==
    [][/\ A_obj' = A_obj
       /\ b_obj' = b_obj
       /\ ATb' = ATb
       /\ dipole_grid_xyz' = dipole_grid_xyz
       /\ m_proxy' = m_proxy
       /\ m0' = m0
       /\ m_maxima' = m_maxima]_vars

(***************************************************************************)
(* Properties of MwPGP_algorithm.                                          *)
(***************************************************************************)
\* C8: reporting independence.  A call with verbose = true that returns has
\* made as many passes and returns the same iterate as the call with the
\* same arguments and verbose = false.
C8_ReportingIndependent ==
    (alg = "MwPGP" /\ pc = "done" /\ par.verbose /\ ~ub)
        => x = QuietResult.x /\ k = QuietResult.k

\* the factor 1 + 1e-6 of the feasibility bound
FeasibleFactor == <<1000001, 1, -6>>

\* C10: MwPGP feasibility.  With every |m0_i| <= M_i and M_i > 0, after every
\* pass of the main loop every dipole has |x_i| <= M_i (1 + 1e-6).
C10_Feasible ==
    (alg = "MwPGP" /\ k >= 1 /\ ~ub
       /\ \A i \in DOMAIN m0 : /\ Less(Zero, m_maxima[i])
                               /\ Leq(SqrtReal(Dot3(m0[i], m0[i])), m_maxima[i]))
        => \A i \in DOMAIN x :
              Leq(SqrtReal(Dot3(x[i], x[i])), Mul(m_maxima[i], FeasibleFactor))

(***************************************************************************)
(* Properties of the parallel regions.                                     *)
(***************************************************************************)
\* no shared location has been written by two different loop indices
DisjointWrites == \A l \in DOMAIN writers : Cardinality(writers[l]) <= 1

\* a finished region has left what one thread running every index leaves
SameValue == joined => mem = SequentialResult

\* C11: parallel regions write disjoint outputs.  In a parallel region two
\* different loop indices never write the same shared location (a reduction
\* variable is written through the threads' own copies), and the values the
\* region leaves are the same under every schedule and interleaving.
C11_RegionsIndependent ==
    region # "none" => DisjointWrites /\ SameValue

(***************************************************************************)
(* Properties of connectivity_matrix.                                      *)
(***************************************************************************)
UsesConnect == alg \in {"multi", "backtracking"}

\* C12 as the specification states it: for every j the table has
\* Connect[j,0] = j.
C12_SelfFirst ==
    UsesConnect => \A j \in 0..(Ndipole - 1) : Connect[j][0] = j

\* the smallest index of a dipole whose centre is that of dipole j
FirstAtCentreOf(j) ==
    CHOOSE i \in 0..j :
        /\ dipole_grid_xyz[i] = dipole_grid_xyz[j]
        /\ \A h \in 0..(i - 1) : dipole_grid_xyz[h] # dipole_grid_xyz[j]

\* C12, amended: for every j, Connect[j,0] is the smallest index of a dipole
\* at the centre of dipole j; it is j itself when no dipole of smaller index
\* shares that centre, in particular when the centres are pairwise distinct.
C12_FirstAtCentre ==
    UsesConnect => \A j \in 0..(Ndipole - 1) : Connect[j][0] = FirstAtCentreOf(j)

\* a table was built for centres of which two coincide
C12_Witness ==
    /\ UsesConnect
    /\ dipole_grid_xyz[1] = dipole_grid_xyz[0]
    /\ Connect[1][0] = 0

(***************************************************************************)
(* Properties of the selection rules of the GPMO solvers.                  *)
(***************************************************************************)
\* C13: single_direction restriction.  When single_direction >= 0, after
\* every iteration of GPMO_baseline, GPMO_multi and GPMO_backtracking every
\* nonzero entry of x lies in column single_direction.
C13_SingleDirection ==
    (alg \in {"baseline", "multi", "backtracking"} /\ par.single_direction >= 0 /\ ~ub)
        => \A i \in DOMAIN x : \A d \in 0..2 :
              x[i][d] # 0 => d = par.single_direction

\* the step writes sign s into column c of x and changes nothing else of x
Placed(c, s) == x' = [x EXCEPT ![c \div 3][c % 3] = s]

\* position of candidate (c, s) in R2s: the '+' bank in column order, then
\* the '-' bank
BankIndex(c, s) == IF s = 1 THEN c ELSE c + N3

\* candidate (c, s) is at least as good as candidate (c2, s2) for the
\* residual of the state: a smaller R2, or the same R2 and no later in R2s
Wins(c, s, c2, s2) ==
    \/ R2Col(Aij_mj_sum, c, s) < R2Col(Aij_mj_sum, c2, s2)
    \/ /\ R2Col(Aij_mj_sum, c, s) = R2Col(Aij_mj_sum, c2, s2)
       /\ BankIndex(c, s) <= BankIndex(c2, s2)

Chosen ==
    Decode(min_element(Evaluated(ScanR2s(R2s, Gamma_complement, Aij_mj_sum), 6 * N),
                       6 * N))

\* x after the placement of the iteration and before its backtracking pass
BeforePass == [x EXCEPT ![Chosen.skj][Chosen.skjj] = Chosen.sign_fac]

\* the dipoles the step's backtracking pass has erased an entry of
Removed == {i \in DOMAIN x : \E d \in 0..2 : BeforePass[i][d] # 0 /\ x'[i][d] = 0}

\* what dipole i adds to entry gp of A x before the pass
Contribution(i, gp) ==
    SumTo([d \in 0..2 |-> BeforePass[i][d] * A_obj[3 * i + d][gp]], 3)

\* C15: wyrm removal effect.  In every iteration of GPMO_backtracking that
\* ends without undefined behaviour, every dipole the pass removes has a
\* partner removed with it that was placed on the same axis with the
\* opposite sign; after the pass the rows of x of both are zero, their six
\* mask slots are true, and the running residual is the residual after the
\* placement minus the contributions of the removed dipoles.
C15_WyrmRemoval ==
    [][(alg = "backtracking" /\ DefinedIteration)
       => /\ \A i \in Removed :
                /\ \A d \in 0..2 : x'[i][d] = 0
                /\ \A d \in 0..2 : Gamma_complement'[3 * i + d]
                /\ \E c \in Removed \ {i} : \E d \in 0..2 :
                      BeforePass[i][d] # 0 /\ BeforePass[c][d] = -BeforePass[i][d]
          /\ \A gp \in 0..(ngrid - 1) :
                Aij_mj_sum'[gp]
                  = Aij_mj_sum[gp]
                    + Chosen.sign_fac * A_obj[3 * Chosen.skj + Chosen.skjj][gp]
                    - SumTo([i \in 0..(N - 1) |->
                               IF i \in Removed THEN Contribution(i, gp) ELSE 0], N)]_vars

(***************************************************************************)
(* Properties of the selection rule of GPMO_MC.                            *)
(***************************************************************************)
\* C16: GPMO_MC selection rule.  In every iteration of GPMO_MC that starts
\* with an available column, the column the iteration places is available
\* and its |u_c| is the largest among the available columns, also when
\* every available column has u_c = 0.
C16_MCSelectsAvailable ==
    [][(alg = "MC" /\ DefinedIteration /\ ~NoSlotLeft)
       => \E c \in 0..(N3 - 1) : \E s \in {1, -1} :
             /\ Gamma_complement[c]
             /\ Placed(c, s)
             /\ \A c2 \in 0..(N3 - 1) :
                    Gamma_complement[c2] => Abs(ATb[c2]) <= Abs(ATb[c])]_vars

(***************************************************************************)
(* Properties of the reporting schedule.                                   *)
(***************************************************************************)
\* C17: GPMO sampling schedule.  In a verbose run of a GPMO variant the
\* sampling modulus floor(K / nhistory) and the modulus the solver uses are
\* non-zero, and the iterations that have written a snapshot so far are
\* exactly those kk with kk mod floor(K / nhistory) = 0, kk = 0 or
\* kk = K - 1.
C17_SamplingSchedule ==
    (alg \in {"baseline", "MC", "multi", "backtracking"} /\ par.verbose)
        => /\ par.K \div par.nhistory # 0
           /\ ReportModulus # 0
           /\ {hist[n][2] : n \in 1..Len(hist)}
                 = {kk \in 0..(k - 1) :
                       \/ kk % (par.K \div par.nhistory) = 0
                       \/ kk = 0
                       \/ kk = par.K - 1}

(***************************************************************************)
(* Properties of the commit of GPMO_multi.                                 *)
(***************************************************************************)
\* the candidate the iteration of GPMO_multi commits
ChosenMulti ==
    Decode(min_element(Evaluated(MultiScanR2s(R2s, Gamma_complement, Aij_mj_sum),
                                 6 * N), 6 * N))

\* the dipoles whose row of x the step writes a new value into
Received == {i \in 0..(N - 1) : x'[i] # x[i]}

\* C18: GPMO_multi commit.  Every iteration of GPMO_multi is defined and
\* gives a value to the chosen dipole i and its nearest available
\* neighbours, Nadjacent dipoles in all (row i of the neighbour table starts
\* with i): they are distinct, each was available at the start, each
\* receives the same sign on the same axis and adds its column once to the
\* running residual, all their mask entries are false afterwards, and they
\* are the dipoles whose columns were summed when candidate i was evaluated.
C18_MultiCommit ==
    [][(alg = "multi" /\ k' = k + 1 /\ ~ub)
       => /\ ~ub'
          /\ ChosenMulti.skj \in Received
          /\ Cardinality(Received) = par.Nadjacent
          /\ \A i \in Received :
                /\ Gamma_complement[3 * i + ChosenMulti.skjj]
                /\ x'[i] = [x[i] EXCEPT ![ChosenMulti.skjj] = ChosenMulti.sign_fac]
                /\ \A d \in 0..2 : ~Gamma_complement'[3 * i + d]
                /\ \A o \in (0..(N - 1)) \ Received :
                      Gamma_complement[3 * o + ChosenMulti.skjj]
                         => Dist(ChosenMulti.skj)[i] <= Dist(ChosenMulti.skj)[o]
          /\ \A gp \in 0..(ngrid - 1) :
                Aij_mj_sum'[gp]
                  = Aij_mj_sum[gp]
                    + SumTo([i \in 0..(N - 1) |->
                               IF i \in Received
                               THEN ChosenMulti.sign_fac
                                      * A_obj[3 * i + ChosenMulti.skjj][gp]
                               ELSE 0], N)
          /\ MultiScanR2s(R2s, Gamma_complement, Aij_mj_sum)
                  [BankIndex(3 * ChosenMulti.skj + ChosenMulti.skjj, ChosenMulti.sign_fac)]
                = SumTo([i \in 0..(N - 1) |->
                           IF i \in Received
                           THEN R2Col(Aij_mj_sum, 3 * i + ChosenMulti.skjj,
                                      ChosenMulti.sign_fac)
                           ELSE 0], N)]_vars

(***************************************************************************)
(* Properties of the descent step of MwPGP_algorithm.                      *)
(***************************************************************************)
\* p . Q p of the state, Q = A^T A + 2 (reg_l2 + 1 / (2 nu)) I
pATAp == DotAll(p, Hessian(p))

\* every entry of the iterate v is a finite number
FiniteIterate(v) == \A i \in DOMAIN v : \A d \in 1..3 : IsFinite(v[i][d])

\* C19: MwPGP degenerate step.  A pass of MwPGP_algorithm that starts with
\* p . Q p = 0 leaves x and g as the projected gradient step
\* x_i <- project_L2(x_i - alpha * g_i, M_i) leaves them (so no conjugate
\* gradient update with the undefined step length g . p / 0 has been applied
\* to either), and the new iterate is finite.
C19_DegenerateStep ==
    [][(alg = "MwPGP" /\ k' = k + 1 /\ FiniteIterate(x) /\ pATAp = Zero)
       => /\ x' = PGStep(x, g).x
          /\ g' = PGStep(x, g).g
          /\ FiniteIterate(x')]_vars

\* the first pass has started with p . Q p = 0 in the branch that compares
\* alpha_cg = g . p / p . Q p with alpha_f
C19_Witness ==
    /\ alg = "MwPGP" /\ k = 1 /\ ~ub
    /\ \E p0 \in {Phi(m0, Gradient(m0))} :
          /\ DotAll(p0, Hessian(p0)) = Zero
          /\ Leq(norm_g_alpha_p(m0, Gradient(m0)), norm_phi_temp(m0, Gradient(m0)))

(***************************************************************************)
(* Properties of the line searches.                                        *)
(***************************************************************************)
\* C20: line-search termination.  In PQN_algorithm and SPG every pass
\* through the body of the backtracking loop strictly decreases the step
\* length alpha, and every search that has started is eventually accepted.
C20_LineSearchTerminates ==
    /\ [][(lpc = "body" /\ lpc' = "test") => Less(alpha_ls', alpha_ls)]_vars
    /\ (lpc = "test") ~> (lpc = "accepted")


(***************************************************************************)
(* Properties of SPG's step length.                                        *)
(***************************************************************************)
\* C21: whenever an update of SPG finds s.y <= 0 (s = y = 0 included), the
\* step length of the next projected direction is alpha_max: alphak_bar of
\* the next pass of the main loop, or, after the last pass, the clipped
\* value of the alpha_bb the call returns for the next call
C21_CurvatureClip ==
    [][(alg = "SPG" /\ lpc = "accepted" /\ k' = k + 1 /\ Leq(sTy, Zero))
         => IF lpc' = "test" THEN alphak_bar' = par.alpha_max
            ELSE ClippedStep(alpha_bb') = par.alpha_max]_vars

(***************************************************************************)
(* Properties of connectivity_matrix over the doubles.                     *)
(***************************************************************************)
\* entry a of a finished row j comes before entry b: a nearer dipole, or
\* one as near with a smaller index
InOrder(j, a, b) ==
    \/ Less(dist_ij(j)[Connect[j][a]], dist_ij(j)[Connect[j][b]])
    \/ /\ dist_ij(j)[Connect[j][a]] = dist_ij(j)[Connect[j][b]]
       /\ Connect[j][a] < Connect[j][b]

\* C22: for every set of centres and every j, the first min(N, 2000) entries
\* of row j of the table are pairwise distinct dipole indices in
\* non-decreasing distance from dipole j, equal distances in ascending index
C22_RowsOrdered ==
    alg = "connectivity" =>
        \A j \in DOMAIN Connect :
            \A a, b \in 0..(Min(Ndipole, ConnectWidth) - 1) :
                a < b => /\ Connect[j][a] \in 0..(Ndipole - 1)
                         /\ Connect[j][a] # Connect[j][b]
                         /\ InOrder(j, a, b)

(***************************************************************************)
(* Properties of the placeholders and of the pass of GPMO_backtracking.    *)
(***************************************************************************)
\* the step is an iteration of GPMO_backtracking that runs the pass
PassRuns ==
    alg = "backtracking" /\ k' = k + 1 /\ k > 0 /\ k % par.backtracking = 0

\* after the step dipole i is placed and one of the first Nadjacent entries
\* of its row of Connect is another placed dipole with the same axis and the
\* opposite sign
WyrmLeft(i) ==
    \E jj \in 0..(par.Nadjacent - 1) : \E d \in 0..2 :
        /\ Connect[i][jj] # i
        /\ x'[i][d] # 0
        /\ x'[Connect[i][jj]][d] = -x'[i][d]

\* C23: no wyrm survives a pass.  Immediately after a backtracking pass of
\* GPMO_backtracking no placed dipole, the one placed in the current
\* iteration included, has among the first Nadjacent entries of its Connect
\* row another placed dipole with the same axis and the opposite sign.
C23_NoWyrmSurvives ==
    [][(PassRuns /\ ~ub') => \A i \in 0..(N - 1) : ~WyrmLeft(i)]_vars

\* C24: backtracking bookkeeping bounds.  In GPMO_backtracking, for every N
\* and K >= 1, no index used on sk_sign_fac or skjj_ind leaves the vectors
\* (length K), and for every dipole i sk_sign_fac[i] and skjj_ind[i] are the
\* sign and the axis of the nonzero entry of row i of x, the sign being 0
\* when the row is zero.
C24_PlaceholdersInBounds ==
    alg = "backtracking" =>
        /\ ~ub
        /\ \A i \in 0..(N - 1) :
              /\ (\A d \in 0..2 : x[i][d] = 0) => sk_sign_fac[i] = 0
              /\ \A d \in 0..2 :
                    x[i][d] # 0 => (sk_sign_fac[i] = x[i][d] /\ skjj_ind[i] = d)

(***************************************************************************)
(* Properties of the neighbour search of GPMO_multi.                       *)
(***************************************************************************)
\* the commit loop of the iteration of the state
CommitRun ==
    CommitFrom(ChosenMulti, 0,
               [oob |-> FALSE, counter |-> 0, x |-> x, r |-> Aij_mj_sum,
                G |-> Gamma_complement,
                R |-> MultiScanR2s(R2s, Gamma_complement, Aij_mj_sum)])

\* a loop over jj < Nadjacent that ended as `run` has kept its searches in
\* the row: they ended, and every column Nadjacent + cj_counter they read is
\* below 2000
SearchInRow(run) == ~run.oob /\ par.Nadjacent + run.counter <= ConnectWidth

\* C25: the neighbour search of GPMO_multi is bounded.  In every iteration,
\* for every N, Nadjacent and K and also when fewer than Nadjacent dipoles
\* are available, each search for a replacement of an unavailable neighbour,
\* in the evaluation of a candidate and in the commit, ends on an available
\* dipole after reading only columns below 2000 of Connect.
C25_SearchBounded ==
    [][(alg = "multi" /\ k' = k + 1 /\ ~ub)
       => /\ \A j \in 0..(N3 - 1) :
                (Scanned(j) /\ Gamma_complement[j])
                   => SearchInRow(EvalCandidate(j, Gamma_complement, Aij_mj_sum))
          /\ SearchInRow(CommitRun)
          /\ \A i \in Received : Gamma_complement[3 * i + ChosenMulti.skjj]]_vars
====
